---- MODULE Spec2Model ----
(***************************************************************************)
(* Model of the orchestration core of agent-go-round.                      *)
(*                                                                         *)
(* Part 1: the leader-team protocol, runLeaderTeam in                      *)
(* src/orchestrators/leaderTeam.ts.  The protocol is a single async        *)
(* function; pc names the await at which it is suspended, and every action *)
(* consumes the response of the outstanding backend call and runs the code *)
(* up to the next await or return.                                         *)
(*                                                                         *)
(* Part 2: the goal-driven loop, runGoalDrivenTalk, in its two variants:   *)
(* src/orchestrators/goalDrivenTalk.ts (an unparseable text ends the       *)
(* session) and the plan/execute/review variant (an unparseable text       *)
(* costs a turn).  gpc names the await it is suspended at.                 *)
(*                                                                         *)
(* Part 3: the tool bridge, listTools and callTool of the tool registry    *)
(* over McpSseClient.request in src/mcp/sseClient.ts: one POST to the      *)
(* companion endpoint, the push channel's onmessage handler and the        *)
(* 15000 ms timer.  bpc names the await the call is suspended at.          *)
(*                                                                         *)
(* Part 4: one backend exchange, runOneToOne in                            *)
(* src/orchestrators/oneToOne.ts, over the events its adapter yields.      *)
(*                                                                         *)
(* Part 5: the request loop of the OpenAI-compatible adapter, chat in      *)
(* src/adapters/openaiCompat.ts, up to the point where the answer is       *)
(* streamed.  apc names the await the generator is suspended at.           *)
(*                                                                         *)
(* Part 6: the chat page, onSend in src/app/App.tsx: the conversation      *)
(* (the history state), the one-to-one exchange with its single tool call  *)
(* and follow-up, and the start and the failure of a leader-team run.      *)
(* opc names the await onSend is suspended at.                             *)
(*                                                                         *)
(* Part 7: the parsers taken alone, extractJsonObject and normalizeAction   *)
(* of leaderTeam.ts, of goalDrivenTalk.ts and of the plan/execute/review   *)
(* variant, applied to one model text.                                     *)
(*                                                                         *)
(* Each part has its own variables; a part that is not running sits at     *)
(* "idle" with its variables at their initial values.                      *)
(***************************************************************************)
EXTENDS Integers, Sequences, FiniteSets, TLC

(* ---------------- bounds of the model ---------------- *)
MaxRoundsBound == 2
MaxRetryBound == 1
MaxReactBound == 1
MaxTurnsBound == 3

(* ---------------- JSON values ----------------
   A JSON object is a function from field names to tagged values, so that
   the typeof tests of the code can be evaluated. *)
Null == [t |-> "null"]
S(x) == [t |-> "string", v |-> x]
B(x) == [t |-> "boolean", v |-> x]
O(x) == [t |-> "object", v |-> x]
A(x) == [t |-> "array", v |-> x]

TypeOf(obj, key) == IF key \in DOMAIN obj THEN obj[key].t ELSE "undefined"

(* A model text: whether the regex /\{[\s\S]*\}/ finds a span, the defects
   of that span (smart quotes in place of the quotes of JSON, a trailing
   comma, some other syntax error), and the object the span denotes once
   it parses.  inner says that a string value of the span holds a
   typographic quote or apostrophe, which is no defect: JSON allows it.
   id tells apart texts that differ only in their prose. *)
Text(id, hasSpan, smart, comma, broken, obj) ==
  [id |-> id, hasSpan |-> hasSpan, smart |-> smart, comma |-> comma, broken |-> broken,
   inner |-> FALSE, obj |-> obj]

(* the same text with a typographic quote or apostrophe inside a string value *)
Quoted(text) == [text EXCEPT !.inner = TRUE]

Strict(id, obj) == Text(id, TRUE, FALSE, FALSE, FALSE, obj)

(* JSON.parse: succeeds only on a span without defects *)
JSONparse(span) ==
  IF span.smart \/ span.comma \/ span.broken THEN Null ELSE span.obj

(* leaderTeam.ts lines 41-46: every typographic quote of the span becomes a
   straight double quote and every comma before } or ] is dropped; a quote
   that stood inside a string value now ends that string early *)
sanitizeJsonText(span) ==
  [span EXCEPT !.smart = FALSE, !.comma = FALSE, !.broken = span.broken \/ span.inner]

extractJsonObject(text) ==
  IF ~text.hasSpan THEN Null
  ELSE IF JSONparse(text) # Null THEN JSONparse(text)
  ELSE JSONparse(sanitizeJsonText(text))

(* String.prototype.toLowerCase().trim() on the discriminators in use *)
LowerTrim(s) ==
  CASE s = "FINISH" -> "finish"
    [] s = " FINISH " -> "finish"
    [] s = " finish " -> "finish"
    [] s = " Ask_Member" -> "ask_member"
    [] s = "ASK_MEMBER" -> "ask_member"
    [] s = " ask_member " -> "ask_member"
    [] OTHER -> s

(* String.prototype.trim() on the messages in use *)
Trim(s) ==
  CASE s = " " -> ""
    [] OTHER -> s

normalizeAction(obj) ==
  IF obj = Null THEN Null
  ELSE
    LET type == IF TypeOf(obj, "type") = "string" THEN LowerTrim(obj["type"].v)
                ELSE IF TypeOf(obj, "action") = "string" THEN LowerTrim(obj["action"].v)
                ELSE ""
    IN IF type = "finish" /\ TypeOf(obj, "answer") = "string"
         THEN [type |-> "finish", answer |-> obj["answer"].v]
       ELSE IF type = "ask_member" /\ TypeOf(obj, "memberId") = "string"
                                  /\ TypeOf(obj, "message") = "string"
         THEN [type |-> "ask_member", memberId |-> obj["memberId"].v, message |-> obj["message"].v]
       ELSE Null

(* JS truthiness of a field, for `!obj.react` *)
Truthy(obj, key) ==
  /\ key \in DOMAIN obj
  /\ obj[key].t # "null"
  /\ (obj[key].t = "boolean" => obj[key].v)
  /\ (obj[key].t = "string" => obj[key].v # "")

normalizeVerify(obj) ==
  IF obj = Null THEN Null
  ELSE IF TypeOf(obj, "ok") # "boolean" THEN Null
  ELSE
    LET ok == obj["ok"].v
        reason == IF TypeOf(obj, "reason") = "string" THEN obj["reason"].v ELSE "undefined"
    IN IF ~Truthy(obj, "react") THEN [ok |-> ok, reason |-> reason]
       ELSE IF /\ obj["react"].t = "object"
               /\ TypeOf(obj["react"].v, "memberId") = "string"
               /\ TypeOf(obj["react"].v, "message") = "string"
         THEN [ok |-> ok, reason |-> reason,
               react |-> [memberId |-> obj["react"].v["memberId"].v,
                          message |-> obj["react"].v["message"].v]]
       ELSE [ok |-> ok, reason |-> reason]

RECURSIVE FilterSeq(_, _)
FilterSeq(s, i) ==
  IF i > Len(s) THEN <<>>
  ELSE LET a == s[i]
       IN (IF a.t = "object" /\ TypeOf(a.v, "memberId") = "string" /\ TypeOf(a.v, "message") = "string"
             THEN <<a>> ELSE <<>>) \o FilterSeq(s, i + 1)

normalizePlan(obj) ==
  IF obj = Null THEN Null
  ELSE IF TypeOf(obj, "assignments") # "array" THEN Null
  ELSE
    LET assignments == FilterSeq(obj["assignments"].v, 1)
    IN IF Len(assignments) = 0 THEN Null
       ELSE [assignments |-> [i \in 1..Len(assignments) |->
                                [memberId |-> assignments[i].v["memberId"].v,
                                 message |-> assignments[i].v["message"].v]],
             notes |-> IF TypeOf(obj, "notes") = "string" THEN obj["notes"].v ELSE "undefined"]


(* ---------------- the texts the backends may return ----------------
   Every backend call returns one text of the universe of its prompt.  The
   one ask_member text names m1: whether m1 is unknown, the planned member
   or another known member depends on the configured members and the plan. *)
AskObj(m, msg) == [type |-> S("ask_member"), memberId |-> S(m), message |-> S(msg)]

DecisionTexts ==
  { Strict("finish_done", [type |-> S("finish"), answer |-> S("done")]),
    Text("ask_m1", TRUE, TRUE, TRUE, FALSE,
         [action |-> S(" Ask_Member"), memberId |-> S("m1"), message |-> S("x")]),
    Text("prose", FALSE, FALSE, FALSE, FALSE, Null) }

Assign(m, msg) == O([memberId |-> S(m), message |-> S(msg)])

(* the planning texts of the full protocol: one without any JSON, and one
   with a trailing comma, an unknown member, a blank message and a repeated
   member *)
PlanTexts ==
  { Text("plan_prose", FALSE, FALSE, FALSE, FALSE, Null),
    Text("plan_mixed", TRUE, FALSE, TRUE, FALSE,
         [assignments |-> A(<<Assign("ghost", "g"), Assign("m1", " "),
                              Assign("m2", "t2"), Assign("m1", "dup")>>),
          notes |-> S("n")]) }

(* the planning texts of the planning phase taken alone *)
AllPlanTexts ==
  PlanTexts \cup
  { Text("plan_broken", TRUE, FALSE, FALSE, TRUE, Null),
    Strict("plan_noarray", [notes |-> S("n")]),
    Strict("plan_notarray", [assignments |-> S("m1")]),
    Strict("plan_empty", [assignments |-> A(<<>>)]),
    Strict("plan_illtyped", [assignments |-> A(<<O([memberId |-> B(TRUE), message |-> S("t")]),
                                                 O([memberId |-> S("m1")]),
                                                 S("m1")>>)]),
    Strict("plan_ghost", [assignments |-> A(<<Assign("ghost", "g")>>)]),
    Text("plan_smart_ghost", TRUE, TRUE, FALSE, FALSE,
         [assignments |-> A(<<Assign("ghost", "g"), Assign("ghost2", "h")>>)]),
    Strict("plan_m1", [assignments |-> A(<<Assign("m1", "t1")>>)]),
    Strict("plan_m2_m1", [assignments |-> A(<<Assign("m2", "t2"), Assign("m1", "t1")>>)]) }

VerifyTexts ==
  { Strict("v_ok", [ok |-> B(TRUE), reason |-> S("fine")]),
    Strict("v_fail", [ok |-> B(FALSE), reason |-> S("bad")]),
    Strict("v_react_m2", [ok |-> B(FALSE), reason |-> S("bad"),
                          react |-> O([memberId |-> S("m2"), message |-> S("redo")])]),
    Strict("v_react_ghost", [ok |-> B(FALSE),
                             react |-> O([memberId |-> S("ghost"), message |-> S("redo")])]),
    Text("v_broken", TRUE, FALSE, FALSE, TRUE, Null) }

ReplyTexts == { "reply" }

MemberConfigs == { <<>>, <<"m2">>, <<"m2", "m1">> }

(* ---------------- state of one runLeaderTeam invocation ---------------- *)
VARIABLES
  members, maxRounds, retryMax, reactMax,   \* arguments
  pc,                     \* the await the function is suspended at
  round, steps,           \* RunState
  planIndex, reactCount, invalidActionRetries,
  plannedAssignments,
  leaderText, action, member, message, verify,
  verifyPrompt, verifyReply, finalText,
  events,                 \* what onEvent received, in order
  deltas,                 \* what onDelta received, in order
  calls,                  \* the backend exchanges opened, in order
  result                  \* the value the promise resolved with

(* ---------------- state of one runGoalDrivenTalk invocation ---------------- *)
VARIABLES
  variant,                \* which of the two source files runs
  maxTurns, activeMcpServer, selectedDoc,   \* arguments
  gpc,                    \* the await the function is suspended at
  turn, hasPlan, session,
  goalAction, targetServer,
  goalEvents,             \* what onEvent received, in order
  goalCalls,              \* the backend exchanges and tool calls opened, in order
  goalResult              \* the value the promise resolved with

goalArgs == <<variant, maxTurns, activeMcpServer, selectedDoc>>
goalVars == <<goalArgs, gpc, turn, hasPlan, session, goalAction, targetServer,
              goalEvents, goalCalls, goalResult>>

(* ---------------- state of one listTools / callTool invocation ---------------- *)
VARIABLES
  method,                 \* "tools/list" or "tools/call"
  sseUrl,                 \* cfg.sseUrl
  bpc,                    \* the await the invocation is suspended at
  pending,                \* the ids of the pending map
  posts,                  \* the fetch requests made, in order
  httpRes,                \* the answer of the companion endpoint, in flight
  srvPush,                \* the frames the server has still to push
  pushed,                 \* the frames onmessage received, in order
  timer, elapsed,         \* the 15000 ms timer and the time since it was set
  resolved,               \* every value request() was resolved with, in order
  toolOut                 \* how listTools / callTool ended

bridgeArgs == <<method, sseUrl>>
bridgeVars == <<bridgeArgs, bpc, pending, posts, httpRes, srvPush, pushed, timer, elapsed,
                resolved, toolOut>>

(* ---------------- state of one runOneToOne invocation ---------------- *)
VARIABLES
  stream,                 \* the events the adapter yields, in order
  spc,                    \* "loop" inside the for await, then how it ended
  spos,                   \* the index of the next event
  full,                   \* the local of line 14
  forwarded,              \* what onDelta received, in order
  sResult                 \* the value the promise resolved with

streamVars == <<stream, spc, spos, full, forwarded, sResult>>

(* ---------------- state of one OpenAICompatAdapter.chat call ---------------- *)
VARIABLES
  retryArg,               \* req.retry: Null when absent, else its max
  apc,                    \* the await the generator is suspended at
  attempt,                \* the loop variable of line 46
  response,               \* the outcome of the fetch in flight
  fetched,                \* the outcomes of the fetches made, in order
  logs,                   \* what onLog received, in order
  yielded                 \* the events yielded, in order

adapterVars == <<retryArg, apc, attempt, response, fetched, logs, yielded>>

(* ---------------- state of the chat page ---------------- *)
VARIABLES
  mode,                   \* "one_to_one" or "leader_team"
  docs, allowedDocIds,    \* the documents and the active agent's allow-list
  appMcpServer,           \* activeMcpServer of the page
  teamSize,               \* memberAgents.length
  conversation,           \* the history state of the page
  opc,                    \* the await onSend is suspended at, "ready" between sends
  sends, sendEnds,        \* the onSend calls made, and how each ended
  baseHistory, userSystem, assistantId, followupId, appFull, mcpAction,  \* locals of onSend
  acc, streamed,          \* the exchange in flight: its text so far, whether a delta came
  requests,               \* the backend exchanges opened, in order
  toolCalls,              \* the callTool invocations, in order
  teamEvents              \* the events of the leader-team run shown so far

appArgs == <<mode, docs, allowedDocIds, appMcpServer, teamSize>>
appLocals == <<baseHistory, userSystem, assistantId, followupId, appFull, mcpAction>>
appVars == <<appArgs, conversation, opc, sends, sendEnds, appLocals, acc, streamed, requests,
             toolCalls, teamEvents>>

(* ---------------- state of the parsers taken alone ---------------- *)
VARIABLES
  parser,                 \* whose functions run: "leader", "src" or "loop"
  modelText,              \* the text the backend returned
  ppc,                    \* how far the text has been processed
  extracted,              \* what each extractJsonObject call returned, in order
  normalized              \* what normalizeAction returned

parseVars == <<parser, modelText, ppc, extracted, normalized>>

args == <<members, maxRounds, retryMax, reactMax>>
locals == <<leaderText, action, member, message, verify, verifyPrompt, verifyReply, finalText>>
leaderVars == <<args, pc, round, steps, planIndex, reactCount, invalidActionRetries,
                plannedAssignments, locals, events, deltas, calls, result>>
(* the parts other than the two orchestrators, and what each part leaves alone *)
others == <<bridgeVars, streamVars, adapterVars, appVars, parseVars>>
notLeader == <<goalVars, others>>
notGoal == <<leaderVars, others>>
notBridge == <<leaderVars, goalVars, streamVars, adapterVars, appVars, parseVars>>
notStream == <<leaderVars, goalVars, bridgeVars, adapterVars, appVars, parseVars>>
notAdapter == <<leaderVars, goalVars, bridgeVars, streamVars, appVars, parseVars>>
notApp == <<leaderVars, goalVars, bridgeVars, streamVars, adapterVars, parseVars>>
notParse == <<leaderVars, goalVars, bridgeVars, streamVars, adapterVars, appVars>>
vars == <<leaderVars, goalVars, others>>

Undefined == "undefined"
NoText == Text("", FALSE, FALSE, FALSE, FALSE, Null)
NoAssignment == [memberId |-> Undefined, message |-> Undefined]

RECURSIVE MapDefault(_, _)
MapDefault(ms, i) ==
  IF i > Len(ms) THEN <<>>
  ELSE <<[memberId |-> ms[i], message |-> ""]>> \o MapDefault(ms, i + 1)

(* membersMeta.map((m) => ({ memberId: m.id, message: "" })) *)
DefaultPlan(ms) == MapDefault(ms, 1)

MemberIds(ms) == { ms[i] : i \in 1..Len(ms) }

(* the filter without the seen set: allowed only *)
RECURSIVE FilterAllowedNoDedupe(_, _, _, _)
FilterAllowedNoDedupe(as, i, allowed, seen) ==
  IF i > Len(as) THEN <<>>
  ELSE IF as[i].memberId \in allowed
    THEN <<as[i]>> \o FilterAllowedNoDedupe(as, i + 1, allowed, seen)
    ELSE FilterAllowedNoDedupe(as, i + 1, allowed, seen)

(* the filter of lines 304-306: allowed, not seen before *)
RECURSIVE FilterAllowed(_, _, _, _)
FilterAllowed(as, i, allowed, seen) ==
  IF i > Len(as) THEN <<>>
  ELSE IF as[i].memberId \in allowed /\ as[i].memberId \notin seen
    THEN <<as[i]>> \o FilterAllowed(as, i + 1, allowed, seen \cup {as[i].memberId})
    ELSE FilterAllowed(as, i + 1, allowed, seen)

(* the plan without the fallback of line 308 *)
ComputePlanNoFallback(ms, planText) ==
  LET plan == normalizePlan(extractJsonObject(planText))
  IN IF plan # Null
       THEN FilterAllowed(plan.assignments, 1, MemberIds(ms), {})
       ELSE DefaultPlan(ms)

(* lines 284-308: the plan computed from the planning call's text *)
ComputePlan(ms, planText) ==
  LET plan == normalizePlan(extractJsonObject(planText))
      fromPlan == IF plan # Null
                    THEN FilterAllowed(plan.assignments, 1, MemberIds(ms), {})
                    ELSE DefaultPlan(ms)
  IN IF Len(fromPlan) = 0 THEN DefaultPlan(ms) ELSE fromPlan

PlanNotes(planText) ==
  LET plan == normalizePlan(extractJsonObject(planText))
  IN IF plan # Null THEN plan.notes ELSE Undefined

(* the planned assignment without the reuse of the last one *)
NextAssignmentNoLast(plan, idx) ==
  IF idx < Len(plan) THEN plan[idx + 1] ELSE NoAssignment

(* line 318: plannedAssignments[planIndex] ?? plannedAssignments[length - 1] *)
NextAssignment(plan, idx) ==
  IF idx < Len(plan) THEN plan[idx + 1]
  ELSE IF Len(plan) > 0 THEN plan[Len(plan)]
  ELSE NoAssignment

(* the member named by the action, as before the plan existed *)
ResolvedMemberIdFromAction(plan, idx, act) == act.memberId

(* line 403: nextMemberId ?? action.memberId *)
ResolvedMemberId(plan, idx, act) ==
  IF NextAssignment(plan, idx).memberId # Undefined
    THEN NextAssignment(plan, idx).memberId
    ELSE act.memberId

(* line 412: nextAssignment?.message?.trim() || action.message *)
ResolvedMessage(plan, idx, act) ==
  LET na == NextAssignment(plan, idx)
  IN IF na.message # Undefined /\ Trim(na.message) # "" THEN Trim(na.message) ELSE act.message

Call(kind, to, input) == [kind |-> kind, to |-> to, input |-> input]

TypeOK ==
  /\ members \in MemberConfigs
  /\ maxRounds \in 0..MaxRoundsBound
  /\ retryMax \in 0..MaxRetryBound
  /\ reactMax \in 0..MaxReactBound
  /\ pc \in {"idle", "start", "plan", "leader", "finalVerify", "member", "verify", "react",
             "final", "returned", "thrown"}

(* lines 264-266, 279: the locals of a runLeaderTeam invocation *)
LeaderLocalsInit ==
  /\ round = 1
  /\ steps = <<>>
  /\ planIndex = 0
  /\ reactCount = 0
  /\ invalidActionRetries = 0
  /\ plannedAssignments = <<>>
  /\ leaderText = NoText
  /\ action = Null
  /\ member = Undefined
  /\ message = Undefined
  /\ verify = Null
  /\ verifyPrompt = Undefined
  /\ verifyReply = Undefined
  /\ finalText = NoText
  /\ events = <<>>
  /\ deltas = <<>>
  /\ calls = <<>>
  /\ result = Undefined

(* runLeaderTeam is not invoked *)
LeaderIdle ==
  /\ members = <<>>
  /\ maxRounds = 0
  /\ retryMax = 0
  /\ reactMax = 0
  /\ pc = "idle"
  /\ LeaderLocalsInit

(* goalDrivenTalk.ts lines 123-125: the locals of a runGoalDrivenTalk invocation *)
GoalLocalsInit ==
  /\ turn = 1
  /\ hasPlan = FALSE
  /\ session = <<>>
  /\ goalAction = Null
  /\ targetServer = Null
  /\ goalEvents = <<>>
  /\ goalCalls = <<>>
  /\ goalResult = Undefined

(* runGoalDrivenTalk is not invoked *)
GoalIdle ==
  /\ variant = "src"
  /\ maxTurns = 0
  /\ activeMcpServer = Null
  /\ selectedDoc = FALSE
  /\ gpc = "idle"
  /\ GoalLocalsInit

(* sseClient.ts lines 19-21: a client that has sent nothing *)
BridgeLocalsInit ==
  /\ pending = {}
  /\ posts = <<>>
  /\ httpRes = Null
  /\ srvPush = {}
  /\ pushed = <<>>
  /\ timer = "unset"
  /\ elapsed = 0
  /\ resolved = <<>>
  /\ toolOut = Null

(* neither listTools nor callTool is invoked *)
BridgeIdle ==
  /\ method = "tools/call"
  /\ sseUrl = "http://host/mcp/sse"
  /\ bpc = "idle"
  /\ BridgeLocalsInit

(* runOneToOne is not invoked *)
StreamIdle ==
  /\ stream = <<>>
  /\ spc = "idle"
  /\ spos = 1
  /\ full = ""
  /\ forwarded = <<>>
  /\ sResult = Undefined

(* the adapter's chat is not called *)
AdapterIdle ==
  /\ retryArg = Null
  /\ apc = "idle"
  /\ attempt = 0
  /\ response = Null
  /\ fetched = <<>>
  /\ logs = <<>>
  /\ yielded = <<>>

NoSystem == [defined |-> FALSE, blocks |-> <<>>]
NoAllowList == [has |-> FALSE, ids |-> {}]

(* App.tsx lines 102 and 348-366: no send has been made *)
AppLocalsInit ==
  /\ conversation = <<>>
  /\ sends = 0
  /\ sendEnds = <<>>
  /\ baseHistory = <<>>
  /\ userSystem = NoSystem
  /\ assistantId = 0
  /\ followupId = 0
  /\ appFull = ""
  /\ mcpAction = Null
  /\ acc = ""
  /\ streamed = FALSE
  /\ requests = <<>>
  /\ toolCalls = <<>>
  /\ teamEvents = 0

(* the chat page is not in use *)
AppIdle ==
  /\ mode = "one_to_one"
  /\ docs = <<>>
  /\ allowedDocIds = NoAllowList
  /\ appMcpServer = Null
  /\ teamSize = 0
  /\ opc = "idle"
  /\ AppLocalsInit

(* no text is being parsed on its own *)
ParseIdle ==
  /\ parser = "leader"
  /\ modelText = NoText
  /\ ppc = "idle"
  /\ extracted = <<>>
  /\ normalized = Null

(* the parts other than the two orchestrators are not running *)
OthersIdle == BridgeIdle /\ StreamIdle /\ AdapterIdle /\ AppIdle /\ ParseIdle

Init ==
  /\ OthersIdle
  /\ members \in MemberConfigs
  /\ maxRounds \in 0..MaxRoundsBound
  /\ retryMax \in 0..MaxRetryBound
  /\ reactMax \in 0..MaxReactBound
  /\ pc = "start"
  /\ LeaderLocalsInit
  /\ GoalIdle


(* ---------------- the steps of runLeaderTeam ---------------- *)

(* the loop test off by one: one round too many *)
LoopHeadLate(r) ==
  IF r <= maxRounds + 1
    THEN /\ pc' = "leader"
         /\ calls' = Append(calls, Call("leader", "leader", Undefined))
    ELSE /\ pc' = "final"
         /\ calls' = Append(calls, Call("final", "leader", Undefined))

(* lines 316-341 and 555-579: the loop test; either the next main-round
   leader call is opened or the forced-finalization call is *)
LoopHead(r) ==
  IF r <= maxRounds
    THEN /\ pc' = "leader"
         /\ calls' = Append(calls, Call("leader", "leader", Undefined))
    ELSE /\ pc' = "final"
         /\ calls' = Append(calls, Call("final", "leader", Undefined))

(* the end of a round that forgets to advance the round counter *)
EndRoundStuck ==
  /\ planIndex' = planIndex + 1
  /\ round' = round
  /\ LoopHead(round)

(* lines 551-553: the round is over *)
EndRound ==
  /\ planIndex' = planIndex + 1
  /\ round' = round + 1
  /\ LoopHead(round + 1)

(* lines 262-298: the arguments are read and the planning call is opened *)
Start ==
  /\ pc = "start"
  /\ pc' = "plan"
  /\ calls' = Append(calls, Call("plan", "leader", Undefined))
  /\ UNCHANGED <<notLeader, args, round, steps, planIndex, reactCount, invalidActionRetries,
                 plannedAssignments, locals, events, deltas, result>>

(* lines 299-314, then the loop head *)
PlanReturnOver(texts) ==
  /\ pc = "plan"
  /\ \E planText \in texts :
       /\ plannedAssignments' = ComputePlan(members, planText)
       /\ events' = Append(events, [type |-> "leader_plan",
                                    assignments |-> ComputePlan(members, planText),
                                    notes |-> PlanNotes(planText),
                                    raw |-> planText.id])
  /\ LoopHead(round)
  /\ UNCHANGED <<notLeader, args, round, steps, planIndex, reactCount, invalidActionRetries,
                 locals, deltas, result>>

PlanReturn == PlanReturnOver(PlanTexts)

(* a main-round response whose text replaces the log instead of joining it *)
DecisionRewritesLog(text) ==
  /\ pc = "leader"
  /\ leaderText' = text
  /\ steps' = << [kind |-> "leader_action", text |-> <<text.id>>] >>

(* lines 343-347, common to every main-round response *)
Decision(text) ==
  /\ pc = "leader"
  /\ leaderText' = text
  /\ steps' = Append(steps, [kind |-> "leader_action", text |-> <<text.id>>])

RawEvent(text) == [type |-> "leader_decision_raw", text |-> text.id]

(* the retry budget tested off by one *)
LeaderInvalidRetryOffByOne ==
  \E text \in DecisionTexts :
    /\ Decision(text)
    /\ normalizeAction(extractJsonObject(text)) = Null
    /\ invalidActionRetries <= retryMax
    /\ invalidActionRetries' = invalidActionRetries + 1
    /\ events' = events \o << RawEvent(text),
                              [type |-> "leader_retry", reason |-> "invalid_json",
                               attempt |-> invalidActionRetries + 1, max |-> retryMax,
                               raw |-> text.id] >>
    /\ action' = Null
    /\ LoopHead(round)
    /\ UNCHANGED <<notLeader, args, round, planIndex, reactCount, plannedAssignments,
                   member, message, verify, verifyPrompt, verifyReply, finalText, deltas, result>>

(* lines 349-361: invalid action, a retry is left; the delay of line 360
   changes no state, `continue` re-enters the loop with the same round *)
LeaderInvalidRetry ==
  \E text \in DecisionTexts :
    /\ Decision(text)
    /\ normalizeAction(extractJsonObject(text)) = Null
    /\ invalidActionRetries < retryMax
    /\ invalidActionRetries' = invalidActionRetries + 1
    /\ events' = events \o << RawEvent(text),
                              [type |-> "leader_retry", reason |-> "invalid_json",
                               attempt |-> invalidActionRetries + 1, max |-> retryMax,
                               raw |-> text.id] >>
    /\ action' = Null
    /\ LoopHead(round)
    /\ UNCHANGED <<notLeader, args, round, planIndex, reactCount, plannedAssignments,
                   member, message, verify, verifyPrompt, verifyReply, finalText, deltas, result>>

(* the give-up that returns without handing the text to onDelta *)
LeaderInvalidGiveUpNoDelta ==
  \E text \in DecisionTexts :
    /\ Decision(text)
    /\ normalizeAction(extractJsonObject(text)) = Null
    /\ ~(invalidActionRetries < retryMax)
    /\ events' = events \o << RawEvent(text), [type |-> "leader_invalid_json", text |-> text.id] >>
    /\ result' = text.id
    /\ action' = Null
    /\ pc' = "returned"
    /\ UNCHANGED <<notLeader, args, round, planIndex, reactCount, invalidActionRetries, plannedAssignments,
                   member, message, verify, verifyPrompt, verifyReply, finalText, calls, deltas>>

(* lines 363-366: invalid action, no retry left *)
LeaderInvalidGiveUp ==
  \E text \in DecisionTexts :
    /\ Decision(text)
    /\ normalizeAction(extractJsonObject(text)) = Null
    /\ ~(invalidActionRetries < retryMax)
    /\ events' = events \o << RawEvent(text), [type |-> "leader_invalid_json", text |-> text.id] >>
    /\ deltas' = Append(deltas, text.id)
    /\ result' = text.id
    /\ action' = Null
    /\ pc' = "returned"
    /\ UNCHANGED <<notLeader, args, round, planIndex, reactCount, invalidActionRetries, plannedAssignments,
                   member, message, verify, verifyPrompt, verifyReply, finalText, calls>>

(* finish accepted at once, without the final-verification call *)
LeaderFinishNoVerify ==
  \E text \in DecisionTexts :
    LET act == normalizeAction(extractJsonObject(text))
    IN /\ Decision(text)
       /\ act # Null
       /\ act.type = "finish"
       /\ action' = act
       /\ events' = events \o << RawEvent(text), [type |-> "leader_finish", answer |-> act.answer] >>
       /\ deltas' = Append(deltas, act.answer)
       /\ result' = act.answer
       /\ pc' = "returned"
       /\ UNCHANGED <<notLeader, args, round, planIndex, reactCount, invalidActionRetries, plannedAssignments,
                      member, message, verify, verifyPrompt, verifyReply, finalText, calls>>

(* lines 369-389: finish, the final-verification call is opened *)
LeaderFinish ==
  \E text \in DecisionTexts :
    LET act == normalizeAction(extractJsonObject(text))
    IN /\ Decision(text)
       /\ act # Null
       /\ act.type = "finish"
       /\ action' = act
       /\ events' = Append(events, RawEvent(text))
       /\ calls' = Append(calls, Call("finalVerify", "leader", Undefined))
       /\ pc' = "finalVerify"
       /\ UNCHANGED <<notLeader, args, round, planIndex, reactCount, invalidActionRetries, plannedAssignments,
                      member, message, verify, verifyPrompt, verifyReply, finalText, deltas, result>>

(* finish gated by the verification: a failed one starts another round *)
FinalVerifyReturnGated ==
  /\ pc = "finalVerify"
  /\ \E verifyText \in VerifyTexts :
       LET v == normalizeVerify(extractJsonObject(verifyText))
       IN IF v # Null /\ v.ok
            THEN /\ events' = events \o
                      << [type |-> "leader_verify", ok |-> v.ok, notes |-> v.reason, raw |-> verifyText.id],
                         [type |-> "leader_finish", answer |-> action.answer] >>
                 /\ deltas' = Append(deltas, action.answer)
                 /\ result' = action.answer
                 /\ pc' = "returned"
                 /\ UNCHANGED <<round, planIndex, calls>>
            ELSE /\ events' = Append(events, [type |-> "leader_verify", ok |-> FALSE,
                                              notes |-> Undefined, raw |-> verifyText.id])
                 /\ EndRound
                 /\ UNCHANGED <<deltas, result>>
  /\ UNCHANGED <<notLeader, args, steps, reactCount, invalidActionRetries, plannedAssignments, locals>>

(* lines 390-400 *)
FinalVerifyReturn ==
  /\ pc = "finalVerify"
  /\ \E verifyText \in VerifyTexts :
       LET v == normalizeVerify(extractJsonObject(verifyText))
       IN events' = events \o
            << IF v # Null
                 THEN [type |-> "leader_verify", ok |-> v.ok, notes |-> v.reason, raw |-> verifyText.id]
                 ELSE [type |-> "leader_verify", ok |-> FALSE,
                       notes |-> "Invalid final verification JSON", raw |-> verifyText.id],
               [type |-> "leader_finish", answer |-> action.answer] >>
  /\ deltas' = Append(deltas, action.answer)
  /\ result' = action.answer
  /\ pc' = "returned"
  /\ UNCHANGED <<notLeader, args, round, steps, planIndex, reactCount, invalidActionRetries,
                 plannedAssignments, locals, calls>>


(* an unknown member that is skipped: the round ends and the loop goes on *)
LeaderAskUnknownContinues ==
  \E text \in DecisionTexts :
    LET act == normalizeAction(extractJsonObject(text))
    IN /\ Decision(text)
       /\ act # Null
       /\ act.type = "ask_member"
       /\ ResolvedMemberId(plannedAssignments, planIndex, act) \notin MemberIds(members)
       /\ action' = act
       /\ events' = events \o << RawEvent(text), [type |-> "leader_invalid_json", text |-> text.id] >>
       /\ EndRound
       /\ UNCHANGED <<notLeader, args, reactCount, invalidActionRetries, plannedAssignments,
                      member, message, verify, verifyPrompt, verifyReply, finalText, deltas, result>>

(* lines 403-410: ask_member, the resolved member is unknown *)
LeaderAskUnknown ==
  \E text \in DecisionTexts :
    LET act == normalizeAction(extractJsonObject(text))
    IN /\ Decision(text)
       /\ act # Null
       /\ act.type = "ask_member"
       /\ ResolvedMemberId(plannedAssignments, planIndex, act) \notin MemberIds(members)
       /\ action' = act
       /\ events' = events \o << RawEvent(text), [type |-> "leader_invalid_json", text |-> text.id] >>
       /\ deltas' = Append(deltas, text.id)
       /\ result' = text.id
       /\ pc' = "returned"
       /\ UNCHANGED <<notLeader, args, round, planIndex, reactCount, invalidActionRetries, plannedAssignments,
                      member, message, verify, verifyPrompt, verifyReply, finalText, calls>>

(* an ask_member that invokes the member without announcing it *)
LeaderAskMemberUnannounced ==
  \E text \in DecisionTexts :
    LET act == normalizeAction(extractJsonObject(text))
        id == ResolvedMemberId(plannedAssignments, planIndex, act)
        msg == ResolvedMessage(plannedAssignments, planIndex, act)
    IN /\ Decision(text)
       /\ act # Null
       /\ act.type = "ask_member"
       /\ id \in MemberIds(members)
       /\ action' = act
       /\ member' = id
       /\ message' = msg
       /\ events' = Append(events, RawEvent(text))
       /\ calls' = Append(calls, Call("member", id, msg))
       /\ pc' = "member"
       /\ UNCHANGED <<notLeader, args, round, planIndex, reactCount, invalidActionRetries, plannedAssignments,
                      verify, verifyPrompt, verifyReply, finalText, deltas, result>>

(* lines 403-431: ask_member, the member call is opened *)
LeaderAskMember ==
  \E text \in DecisionTexts :
    LET act == normalizeAction(extractJsonObject(text))
        id == ResolvedMemberId(plannedAssignments, planIndex, act)
        msg == ResolvedMessage(plannedAssignments, planIndex, act)
    IN /\ Decision(text)
       /\ act # Null
       /\ act.type = "ask_member"
       /\ id \in MemberIds(members)
       /\ action' = act
       /\ member' = id
       /\ message' = msg
       /\ events' = events \o << RawEvent(text),
                                 [type |-> "leader_ask_member", memberId |-> id, message |-> msg] >>
       /\ calls' = Append(calls, Call("member", id, msg))
       /\ pc' = "member"
       /\ UNCHANGED <<notLeader, args, round, planIndex, reactCount, invalidActionRetries, plannedAssignments,
                      verify, verifyPrompt, verifyReply, finalText, deltas, result>>

(* lines 433-471: the member replied, the verification call is opened *)
MemberReturn ==
  /\ pc = "member"
  /\ \E reply \in ReplyTexts :
       /\ events' = Append(events, [type |-> "member_reply", memberId |-> member,
                                    prompt |-> message, reply |-> reply])
       /\ steps' = Append(steps, [kind |-> "member_reply", memberId |-> member,
                                  prompt |-> action.message, reply |-> reply])
       /\ verifyPrompt' = message
       /\ verifyReply' = reply
  /\ calls' = Append(calls, Call("verify", "leader", Undefined))
  /\ pc' = "verify"
  /\ UNCHANGED <<notLeader, args, round, planIndex, reactCount, invalidActionRetries, plannedAssignments,
                 leaderText, action, member, message, verify, finalText, deltas, result>>

VerifyEvent(v, verifyText) ==
  [type |-> "leader_verify", ok |-> v.ok, notes |-> v.reason, raw |-> verifyText.id]

HasReact(v) == "react" \in DOMAIN v

(* an unparseable verification that ends the session with the member's reply *)
VerifyInvalidEndsSession ==
  /\ pc = "verify"
  /\ \E verifyText \in VerifyTexts :
       /\ normalizeVerify(extractJsonObject(verifyText)) = Null
       /\ events' = Append(events, [type |-> "leader_verify", ok |-> FALSE,
                                    notes |-> "Invalid verification JSON", raw |-> verifyText.id])
  /\ verify' = Null
  /\ deltas' = Append(deltas, verifyReply)
  /\ result' = verifyReply
  /\ pc' = "returned"
  /\ UNCHANGED <<notLeader, args, round, steps, planIndex, reactCount, invalidActionRetries,
                 plannedAssignments, leaderText, action, member, message, verifyPrompt,
                 verifyReply, finalText, calls>>

(* lines 473-479: the verification does not parse *)
VerifyInvalid ==
  /\ pc = "verify"
  /\ \E verifyText \in VerifyTexts :
       /\ normalizeVerify(extractJsonObject(verifyText)) = Null
       /\ events' = Append(events, [type |-> "leader_verify", ok |-> FALSE,
                                    notes |-> "Invalid verification JSON", raw |-> verifyText.id])
  /\ verify' = Null
  /\ EndRound
  /\ UNCHANGED <<notLeader, args, steps, reactCount, invalidActionRetries, plannedAssignments,
                 leaderText, action, member, message, verifyPrompt, verifyReply, finalText, deltas, result>>

(* a verified round that hands the next round a fresh retry budget *)
VerifyOkResetsRetries ==
  /\ pc = "verify"
  /\ \E verifyText \in VerifyTexts :
       LET v == normalizeVerify(extractJsonObject(verifyText))
       IN /\ v # Null
          /\ v.ok
          /\ verify' = v
          /\ events' = Append(events, VerifyEvent(v, verifyText))
  /\ EndRound
  /\ invalidActionRetries' = 0
  /\ UNCHANGED <<notLeader, args, steps, reactCount, plannedAssignments,
                 leaderText, action, member, message, verifyPrompt, verifyReply, finalText, deltas, result>>

(* lines 481-486: verified *)
VerifyOk ==
  /\ pc = "verify"
  /\ \E verifyText \in VerifyTexts :
       LET v == normalizeVerify(extractJsonObject(verifyText))
       IN /\ v # Null
          /\ v.ok
          /\ verify' = v
          /\ events' = Append(events, VerifyEvent(v, verifyText))
  /\ EndRound
  /\ UNCHANGED <<notLeader, args, steps, reactCount, invalidActionRetries, plannedAssignments,
                 leaderText, action, member, message, verifyPrompt, verifyReply, finalText, deltas, result>>

(* lines 488-491: failed, no react *)
VerifyFailNoReact ==
  /\ pc = "verify"
  /\ \E verifyText \in VerifyTexts :
       LET v == normalizeVerify(extractJsonObject(verifyText))
       IN /\ v # Null
          /\ ~v.ok
          /\ ~HasReact(v)
          /\ verify' = v
          /\ events' = Append(events, VerifyEvent(v, verifyText))
  /\ EndRound
  /\ UNCHANGED <<notLeader, args, steps, reactCount, invalidActionRetries, plannedAssignments,
                 leaderText, action, member, message, verifyPrompt, verifyReply, finalText, deltas, result>>

(* lines 493-496: failed with a react, the react budget is used up *)
VerifyReactLimit ==
  /\ pc = "verify"
  /\ \E verifyText \in VerifyTexts :
       LET v == normalizeVerify(extractJsonObject(verifyText))
       IN /\ v # Null
          /\ ~v.ok
          /\ HasReact(v)
          /\ reactCount >= reactMax
          /\ verify' = v
          /\ events' = Append(events, VerifyEvent(v, verifyText))
  /\ EndRound
  /\ UNCHANGED <<notLeader, args, steps, reactCount, invalidActionRetries, plannedAssignments,
                 leaderText, action, member, message, verifyPrompt, verifyReply, finalText, deltas, result>>

(* an unknown react member that ends the session with the leader's raw text *)
VerifyReactUnknownTerminates ==
  /\ pc = "verify"
  /\ \E verifyText \in VerifyTexts :
       LET v == normalizeVerify(extractJsonObject(verifyText))
       IN /\ v # Null
          /\ ~v.ok
          /\ HasReact(v)
          /\ ~(reactCount >= reactMax)
          /\ v.react.memberId \notin MemberIds(members)
          /\ verify' = v
          /\ events' = Append(events, VerifyEvent(v, verifyText))
  /\ deltas' = Append(deltas, leaderText.id)
  /\ result' = leaderText.id
  /\ pc' = "returned"
  /\ UNCHANGED <<notLeader, args, round, steps, planIndex, reactCount, invalidActionRetries, plannedAssignments,
                 leaderText, action, member, message, verifyPrompt, verifyReply, finalText, calls>>

(* lines 498-502: failed with a react to an unknown member *)
VerifyReactUnknown ==
  /\ pc = "verify"
  /\ \E verifyText \in VerifyTexts :
       LET v == normalizeVerify(extractJsonObject(verifyText))
       IN /\ v # Null
          /\ ~v.ok
          /\ HasReact(v)
          /\ ~(reactCount >= reactMax)
          /\ v.react.memberId \notin MemberIds(members)
          /\ verify' = v
          /\ events' = Append(events, VerifyEvent(v, verifyText))
  /\ EndRound
  /\ UNCHANGED <<notLeader, args, steps, reactCount, invalidActionRetries, plannedAssignments,
                 leaderText, action, member, message, verifyPrompt, verifyReply, finalText, deltas, result>>

(* the react budget tested off by one *)
VerifyReactOffByOne ==
  /\ pc = "verify"
  /\ \E verifyText \in VerifyTexts :
       LET v == normalizeVerify(extractJsonObject(verifyText))
       IN /\ v # Null
          /\ ~v.ok
          /\ HasReact(v)
          /\ ~(reactCount > reactMax)
          /\ v.react.memberId \in MemberIds(members)
          /\ verify' = v
          /\ reactCount' = reactCount + 1
          /\ events' = events \o << VerifyEvent(v, verifyText),
                                    [type |-> "leader_react", memberId |-> v.react.memberId,
                                     message |-> v.react.message, reason |-> v.reason] >>
          /\ calls' = Append(calls, Call("react", v.react.memberId, v.react.message))
  /\ pc' = "react"
  /\ UNCHANGED <<notLeader, args, round, steps, planIndex, invalidActionRetries, plannedAssignments,
                 leaderText, action, member, message, verifyPrompt, verifyReply, finalText,
                 deltas, result>>

(* lines 504-524: react, the re-delegation call is opened *)
VerifyReact ==
  /\ pc = "verify"
  /\ \E verifyText \in VerifyTexts :
       LET v == normalizeVerify(extractJsonObject(verifyText))
       IN /\ v # Null
          /\ ~v.ok
          /\ HasReact(v)
          /\ ~(reactCount >= reactMax)
          /\ v.react.memberId \in MemberIds(members)
          /\ verify' = v
          /\ reactCount' = reactCount + 1
          /\ events' = events \o << VerifyEvent(v, verifyText),
                                    [type |-> "leader_react", memberId |-> v.react.memberId,
                                     message |-> v.react.message, reason |-> v.reason] >>
          /\ calls' = Append(calls, Call("react", v.react.memberId, v.react.message))
  /\ pc' = "react"
  /\ UNCHANGED <<notLeader, args, round, steps, planIndex, invalidActionRetries, plannedAssignments,
                 leaderText, action, member, message, verifyPrompt, verifyReply, finalText, deltas, result>>

(* lines 526-549, then the verification call of the next iteration *)
ReactReturn ==
  /\ pc = "react"
  /\ \E reactReply \in ReplyTexts :
       /\ steps' = steps \o
            << [kind |-> "leader_action",
                text |-> <<"VERIFY", verify.reason, "REACT", verify.react.memberId, verify.react.message>>],
               [kind |-> "member_reply", memberId |-> verify.react.memberId,
                prompt |-> verify.react.message, reply |-> reactReply] >>
       /\ events' = Append(events, [type |-> "member_reply", memberId |-> verify.react.memberId,
                                    prompt |-> verify.react.message, reply |-> reactReply])
       /\ verifyReply' = reactReply
  /\ verifyPrompt' = verify.react.message
  /\ calls' = Append(calls, Call("verify", "leader", Undefined))
  /\ pc' = "verify"
  /\ UNCHANGED <<notLeader, args, round, planIndex, reactCount, invalidActionRetries, plannedAssignments,
                 leaderText, action, member, message, verify, finalText, deltas, result>>

(* the forced finalization returned raw, never parsed *)
FinalAnswerRaw(text) == text.id

(* lines 581-587: the forced finalization answered *)
FinalAnswer(text) ==
  LET finalAction == normalizeAction(extractJsonObject(text))
  IN IF finalAction # Null /\ finalAction.type = "finish" THEN finalAction.answer ELSE text.id

(* the forced finalization that returns without a leader_finish event *)
FinalReturnSilent ==
  /\ pc = "final"
  /\ \E text \in DecisionTexts :
       /\ finalText' = text
       /\ deltas' = Append(deltas, FinalAnswer(text))
       /\ result' = FinalAnswer(text)
  /\ pc' = "returned"
  /\ UNCHANGED <<notLeader, args, round, steps, planIndex, reactCount, invalidActionRetries,
                 plannedAssignments, leaderText, action, member, message, verify,
                 verifyPrompt, verifyReply, calls, events>>

(* lines 581-587: the forced finalization returned *)
FinalReturn ==
  /\ pc = "final"
  /\ \E text \in DecisionTexts :
       /\ finalText' = text
       /\ events' = Append(events, [type |-> "leader_finish", answer |-> FinalAnswer(text)])
       /\ deltas' = Append(deltas, FinalAnswer(text))
       /\ result' = FinalAnswer(text)
  /\ pc' = "returned"
  /\ UNCHANGED <<notLeader, args, round, steps, planIndex, reactCount, invalidActionRetries,
                 plannedAssignments, leaderText, action, member, message, verify,
                 verifyPrompt, verifyReply, calls>>

(* runOneToOne awaits adapter.chat without a try/catch: a backend exchange
   that rejects makes runLeaderTeam reject *)
BackendThrows ==
  /\ pc \in {"plan", "leader", "finalVerify", "member", "verify", "react", "final"}
  /\ pc' = "thrown"
  /\ UNCHANGED <<notLeader, args, round, steps, planIndex, reactCount, invalidActionRetries,
                 plannedAssignments, locals, events, deltas, calls, result>>

Next ==
  \/ Start
  \/ PlanReturn
  \/ LeaderInvalidRetry
  \/ LeaderInvalidGiveUp
  \/ LeaderFinish
  \/ FinalVerifyReturn
  \/ LeaderAskUnknown
  \/ LeaderAskMember
  \/ MemberReturn
  \/ VerifyInvalid
  \/ VerifyOk
  \/ VerifyFailNoReact
  \/ VerifyReactLimit
  \/ VerifyReactUnknown
  \/ VerifyReact
  \/ ReactReturn
  \/ FinalReturn
  \/ BackendThrows

Spec == Init /\ [][Next]_vars

(* the session when every backend exchange it opens returns: the awaited
   promise resolves and the event loop resumes the function *)
NextReturns ==
  \/ Start
  \/ PlanReturn
  \/ LeaderInvalidRetry
  \/ LeaderInvalidGiveUp
  \/ LeaderFinish
  \/ FinalVerifyReturn
  \/ LeaderAskUnknown
  \/ LeaderAskMember
  \/ MemberReturn
  \/ VerifyInvalid
  \/ VerifyOk
  \/ VerifyFailNoReact
  \/ VerifyReactLimit
  \/ VerifyReactUnknown
  \/ VerifyReact
  \/ ReactReturn
  \/ FinalReturn

SpecReturns == Init /\ [][NextReturns]_vars /\ WF_vars(NextReturns)

(* the planning phase alone, over every planning text *)
PlanReturnAll == PlanReturnOver(AllPlanTexts)

NextPlan ==
  \/ Start
  \/ PlanReturnAll

SpecPlan == Init /\ [][NextPlan]_vars


(* ================ Part 2: runGoalDrivenTalk ================ *)

(* goalDrivenTalk.ts lines 20-28: one strict JSON.parse of the span, no
   second pass *)
goalExtractJsonObject(text) ==
  IF ~text.hasSpan THEN Null ELSE JSONparse(text)

(* String.prototype.toLowerCase() on the discriminators and statuses in use *)
toLowerCase(s) ==
  CASE s = "PLAN" -> "plan"
    [] s = "MCP_CALL" -> "mcp_call"
    [] s = "FINAL" -> "final"
    [] s = "DOC_LOOKUP" -> "doc_lookup"
    [] s = "Done" -> "done"
    [] OTHER -> s

(* stringifyAny on the values in use: a string is itself, null is "null",
   the empty object is "{}" *)
stringifyAny(v) ==
  IF v.t = "string" THEN v.v
  ELSE IF v.t = "null" THEN "null"
  ELSE "{}"

(* goalDrivenTalk.ts lines 34-36: the items with a string goal and a string agent *)
RECURSIVE PlanItems(_, _)
PlanItems(items, i) ==
  IF i > Len(items) THEN <<>>
  ELSE LET it == items[i]
       IN (IF it.t = "object" /\ TypeOf(it.v, "goal") = "string" /\ TypeOf(it.v, "agent") = "string"
             THEN << [goal |-> it.v["goal"].v, agent |-> it.v["agent"].v] >>
             ELSE <<>>) \o PlanItems(items, i + 1)

(* goalDrivenTalk.ts line 50; an absent input is kept as null, which
   `action.input ?? {}` treats alike *)
McpAction(obj) ==
  [type |-> "mcp_call", tool |-> obj["tool"].v,
   input |-> IF "input" \in DOMAIN obj THEN obj["input"] ELSE Null,
   serverId |-> IF TypeOf(obj, "serverId") = "string" THEN obj["serverId"].v ELSE Undefined]

(* goalDrivenTalk.ts lines 30-53 *)
goalNormalizeAction(obj) ==
  IF obj = Null THEN Null
  ELSE
    LET Is(t) == TypeOf(obj, "type") = "string" /\ obj["type"].v = t
        items == IF Is("plan") /\ TypeOf(obj, "items") = "array"
                   THEN PlanItems(obj["items"].v, 1) ELSE <<>>
    IN IF Len(items) > 0 THEN [type |-> "plan", items |-> items]
       ELSE IF Is("final") /\ TypeOf(obj, "answer") = "string"
         THEN [type |-> "final", answer |-> obj["answer"].v]
       ELSE IF Is("think") /\ TypeOf(obj, "thought") = "string"
         THEN [type |-> "think", thought |-> obj["thought"].v]
       ELSE IF Is("doc_lookup")
         THEN [type |-> "doc_lookup",
               query |-> IF TypeOf(obj, "query") = "string" THEN obj["query"].v ELSE Undefined]
       ELSE IF Is("mcp_call") /\ TypeOf(obj, "tool") = "string" THEN McpAction(obj)
       ELSE Null

(* part_005 lines 45-52: a string item, or an object with a string task or goal *)
RECURSIVE PlanTasks(_, _)
PlanTasks(items, i) ==
  IF i > Len(items) THEN <<>>
  ELSE LET it == items[i]
       IN (IF it.t = "string" THEN << [task |-> it.v] >>
           ELSE IF it.t = "object" /\ TypeOf(it.v, "task") = "string" THEN << [task |-> it.v["task"].v] >>
           ELSE IF it.t = "object" /\ TypeOf(it.v, "goal") = "string" THEN << [task |-> it.v["goal"].v] >>
           ELSE <<>>) \o PlanTasks(items, i + 1)

(* part_005 lines 69-76: the first of output, result, notes that is a string,
   else the first that is neither null nor absent *)
ExecuteOutput(obj) ==
  LET Str(k) == TypeOf(obj, k) = "string"
      Has(k) == k \in DOMAIN obj /\ obj[k].t # "null"
  IN IF Str("output") THEN obj["output"]
     ELSE IF Str("result") THEN obj["result"]
     ELSE IF Str("notes") THEN obj["notes"]
     ELSE IF Has("output") THEN obj["output"]
     ELSE IF Has("result") THEN obj["result"]
     ELSE IF Has("notes") THEN obj["notes"]
     ELSE S("")

(* part_005 lines 80-87 *)
ReviewOk(obj) ==
  IF TypeOf(obj, "ok") = "boolean" THEN obj["ok"].v
  ELSE IF TypeOf(obj, "success") = "boolean" THEN obj["success"].v
  ELSE IF TypeOf(obj, "status") = "string"
    THEN toLowerCase(obj["status"].v) \in {"ok", "done", "success", "complete"}
  ELSE FALSE

(* part_005 lines 34-91 *)
loopNormalizeAction(obj) ==
  IF obj = Null THEN Null
  ELSE
    LET type == IF TypeOf(obj, "type") = "string" THEN toLowerCase(obj["type"].v)
                ELSE IF TypeOf(obj, "action") = "string" THEN toLowerCase(obj["action"].v)
                ELSE ""
        items == IF type = "plan" /\ TypeOf(obj, "items") = "array"
                   THEN PlanTasks(obj["items"].v, 1) ELSE <<>>
    IN IF Len(items) > 0 THEN [type |-> "plan", items |-> items]
       ELSE IF type = "final" /\ TypeOf(obj, "answer") = "string"
         THEN [type |-> "final", answer |-> obj["answer"].v]
       ELSE IF type = "think" /\ TypeOf(obj, "thought") = "string"
         THEN [type |-> "think", thought |-> obj["thought"].v]
       ELSE IF type = "doc_lookup"
         THEN [type |-> "doc_lookup",
               query |-> IF TypeOf(obj, "query") = "string" THEN obj["query"].v ELSE Undefined]
       ELSE IF type = "mcp_call" /\ TypeOf(obj, "tool") = "string" THEN McpAction(obj)
       ELSE IF type = "execute" /\ TypeOf(obj, "task") = "string"
         THEN [type |-> "execute", task |-> obj["task"].v, output |-> stringifyAny(ExecuteOutput(obj))]
       ELSE IF type = "review" /\ TypeOf(obj, "task") = "string"
         THEN [type |-> "review", task |-> obj["task"].v, ok |-> ReviewOk(obj),
               notes |-> IF TypeOf(obj, "notes") = "string" THEN obj["notes"].v ELSE Undefined]
       ELSE Null

(* the action a model text is read as, by the variant that runs *)
GoalActionOf(v, text) ==
  IF v = "src" THEN goalNormalizeAction(goalExtractJsonObject(text))
  ELSE loopNormalizeAction(goalExtractJsonObject(text))

(* ---------------- the texts the agent may return ---------------- *)
GoalTexts ==
  { Strict("g_plan", [type |-> S("plan"),
                      items |-> A(<< O([goal |-> S("g1"), agent |-> S("agent")]) >>)]),
    Strict("g_think", [type |-> S("think"), thought |-> S("hm")]),
    Strict("g_doc", [type |-> S("doc_lookup")]),
    Strict("g_mcp", [type |-> S("mcp_call"), tool |-> S("t1")]),
    Strict("g_mcp_srvA", [type |-> S("mcp_call"), tool |-> S("t1"), serverId |-> S("srvA")]),
    Strict("g_final", [type |-> S("final"), answer |-> S("ans")]),
    Strict("g_execute", [type |-> S("execute"), task |-> S("g1"), output |-> S("did")]),
    Strict("g_review", [type |-> S("review"), task |-> S("g1"), status |-> S("Done")]),
    Text("g_prose", FALSE, FALSE, FALSE, FALSE, Null) }

ToolOutputs == { S("out") }
ToolErrors == { "timeout" }

SrvA == [id |-> "srvA", name |-> "A"]
SrvB == [id |-> "srvB", name |-> "B"]
McpServers == { SrvA, SrvB }

AgentName == "agent"
FallbackText == "Reached turn limit. Here is the best available answer based on prior steps."

(* lines 55-57; the random id and the timestamp are left out *)
makeMsg(role, content, name) == [role |-> role, content |-> content, name |-> name]

(* line 124 *)
docText == IF selectedDoc THEN "[DOC:title]\ncontent" ELSE "No doc selected."

(* lines 127-130: the messages emit pushes to the session *)
RECURSIVE Messages(_, _)
Messages(evs, i) ==
  IF i > Len(evs) THEN <<>>
  ELSE (IF "message" \in DOMAIN evs[i] THEN << evs[i].message >> ELSE <<>>) \o Messages(evs, i + 1)

(* the server whose id the action names, when it is a configured one *)
ResolveTargetServerById(serverId, active) ==
  IF serverId # Undefined /\ (\E srv \in McpServers : srv.id = serverId)
    THEN CHOOSE srv \in McpServers : srv.id = serverId
    ELSE active

(* lines 182-185: both branches of the conditional yield the active server *)
ResolveTargetServer(serverId, active) ==
  IF serverId # Undefined /\ serverId # "" /\ active # Null /\ active.id = serverId
    THEN active
    ELSE active

GoalTypeOK ==
  /\ variant \in {"src", "loop"}
  /\ maxTurns \in 0..MaxTurnsBound
  /\ activeMcpServer \in McpServers \cup {Null}
  /\ selectedDoc \in BOOLEAN
  /\ gpc \in {"idle", "start", "model", "tool", "returned", "thrown"}

InitGoal ==
  /\ OthersIdle
  /\ LeaderIdle
  /\ variant \in {"src", "loop"}
  /\ maxTurns \in 0..MaxTurnsBound
  /\ activeMcpServer \in McpServers \cup {Null}
  /\ selectedDoc \in BOOLEAN
  /\ gpc = "start"
  /\ GoalLocalsInit

(* lines 145-152: the backend exchange of a turn *)
ModelCall(hp, history) ==
  [kind |-> "model", to |-> AgentName, planFirst |-> ~hp, history |-> history]

(* the loop test off by one: one turn too many *)
GoalLoopLate(t, evs, hp) ==
  /\ turn' = t
  /\ hasPlan' = hp
  /\ IF t <= maxTurns + 1
       THEN /\ session' = session \o Messages(evs, 1)
            /\ goalEvents' = goalEvents \o evs
            /\ goalCalls' = Append(goalCalls, ModelCall(hp, session \o Messages(evs, 1)))
            /\ gpc' = "model"
            /\ goalResult' = goalResult
       ELSE LET fallback == makeMsg("assistant", FallbackText, AgentName)
            IN /\ session' = session \o Messages(evs, 1) \o << fallback >>
               /\ goalEvents' = goalEvents \o evs \o << [type |-> "assistant", message |-> fallback] >>
               /\ goalCalls' = goalCalls
               /\ gpc' = "returned"
               /\ goalResult' = FallbackText

(* lines 127-152 and 217-219: the events of the turn are emitted, then the
   loop test: either the backend exchange of turn t is opened or the
   fallback message is appended and returned *)
GoalLoop(t, evs, hp) ==
  /\ turn' = t
  /\ hasPlan' = hp
  /\ IF t <= maxTurns
       THEN /\ session' = session \o Messages(evs, 1)
            /\ goalEvents' = goalEvents \o evs
            /\ goalCalls' = Append(goalCalls, ModelCall(hp, session \o Messages(evs, 1)))
            /\ gpc' = "model"
            /\ goalResult' = goalResult
       ELSE LET fallback == makeMsg("assistant", FallbackText, AgentName)
            IN /\ session' = session \o Messages(evs, 1) \o << fallback >>
               /\ goalEvents' = goalEvents \o evs \o << [type |-> "assistant", message |-> fallback] >>
               /\ goalCalls' = goalCalls
               /\ gpc' = "returned"
               /\ goalResult' = FallbackText

(* `continue`: the turn's events, then the next turn *)
GoalContinue(evs, hp) == GoalLoop(turn + 1, evs, hp)

(* `return value` after the turn's events *)
GoalReturn(evs, value) ==
  /\ session' = session \o Messages(evs, 1)
  /\ goalEvents' = goalEvents \o evs
  /\ goalResult' = value
  /\ gpc' = "returned"
  /\ UNCHANGED <<turn, hasPlan, goalCalls>>

(* lines 122-132: the arguments are read and the loop is entered *)
GoalStart ==
  /\ gpc = "start"
  /\ GoalLoop(1, <<>>, FALSE)
  /\ UNCHANGED <<notGoal, goalArgs, goalAction, targetServer>>

(* an unparseable text that costs a turn instead of ending the session *)
GoalInvalidReturnContinues ==
  /\ gpc = "model"
  /\ variant = "src"
  /\ \E text \in GoalTexts :
       /\ GoalActionOf(variant, text) = Null
       /\ goalAction' = Null
       /\ GoalContinue(<< [type |-> "assistant", message |-> makeMsg("assistant", text.id, AgentName)] >>,
                       hasPlan)
  /\ UNCHANGED <<notGoal, goalArgs, targetServer>>

(* goalDrivenTalk.ts lines 154-159: the text is no action; it is appended
   and returned *)
GoalInvalidReturn ==
  /\ gpc = "model"
  /\ variant = "src"
  /\ \E text \in GoalTexts :
       /\ GoalActionOf(variant, text) = Null
       /\ goalAction' = Null
       /\ GoalReturn(<< [type |-> "assistant", message |-> makeMsg("assistant", text.id, AgentName)] >>,
                     text.id)
  /\ UNCHANGED <<notGoal, goalArgs, targetServer>>

(* an unparseable text that ends the session of the continuing variant *)
GoalInvalidContinueReturns ==
  /\ gpc = "model"
  /\ variant = "loop"
  /\ \E text \in GoalTexts :
       /\ GoalActionOf(variant, text) = Null
       /\ goalAction' = Null
       /\ GoalReturn(<< [type |-> "assistant", message |-> makeMsg("assistant", text.id, AgentName)] >>,
                     text.id)
  /\ UNCHANGED <<notGoal, goalArgs, targetServer>>

(* part_005 lines 191-197: the text is no action; it is appended and the
   loop goes on *)
GoalInvalidContinue ==
  /\ gpc = "model"
  /\ variant = "loop"
  /\ \E text \in GoalTexts :
       /\ GoalActionOf(variant, text) = Null
       /\ goalAction' = Null
       /\ GoalContinue(<< [type |-> "assistant", message |-> makeMsg("assistant", text.id, AgentName)] >>,
                       hasPlan)
  /\ UNCHANGED <<notGoal, goalArgs, targetServer>>

(* lines 161-165 *)
GoalThink ==
  /\ gpc = "model"
  /\ \E text \in GoalTexts :
       LET act == GoalActionOf(variant, text)
       IN /\ act # Null
          /\ act.type = "think"
          /\ goalAction' = act
          /\ GoalContinue(<< [type |-> "assistant",
                              message |-> makeMsg("assistant", act.thought, AgentName)] >>, hasPlan)
  /\ UNCHANGED <<notGoal, goalArgs, targetServer>>

(* lines 169 and part_005 line 207: the numbered lines of the plan (the
   dash is written in ASCII) *)
RECURSIVE planLines(_, _)
planLines(items, i) ==
  IF i > Len(items) THEN ""
  ELSE (IF i > 1 THEN "\n" ELSE "") \o ToString(i) \o ". " \o
       (IF "task" \in DOMAIN items[i]
          THEN items[i].task
          ELSE items[i].goal \o " - assigned to " \o items[i].agent)
       \o planLines(items, i + 1)

RECURSIVE planTasks(_, _)
planTasks(items, i) ==
  IF i > Len(items) THEN <<>> ELSE << items[i].task >> \o planTasks(items, i + 1)

(* what a plan action emits: the message and, in the loop variant, the plan event *)
PlanEvents(act) ==
  << [type |-> "assistant",
      message |-> makeMsg("assistant", "Plan established:\n" \o planLines(act.items, 1), AgentName)] >>
  \o (IF variant = "loop" THEN << [type |-> "plan", items |-> planTasks(act.items, 1)] >> ELSE <<>>)

(* lines 167-173 and part_005 lines 205-212: a plan action, on any turn *)
GoalPlan ==
  /\ gpc = "model"
  /\ \E text \in GoalTexts :
       LET act == GoalActionOf(variant, text)
       IN /\ act # Null
          /\ act.type = "plan"
          /\ goalAction' = act
          /\ GoalContinue(PlanEvents(act), TRUE)
  /\ UNCHANGED <<notGoal, goalArgs, targetServer>>

(* a doc_lookup that adds the document twice *)
GoalDocLookupTwice ==
  /\ gpc = "model"
  /\ \E text \in GoalTexts :
       LET act == GoalActionOf(variant, text)
       IN /\ act # Null
          /\ act.type = "doc_lookup"
          /\ goalAction' = act
          /\ GoalContinue(<< [type |-> "tool", message |-> makeMsg("tool", docText, "doc")],
                             [type |-> "tool", message |-> makeMsg("tool", docText, "doc")] >>, hasPlan)
  /\ UNCHANGED <<notGoal, goalArgs, targetServer>>

(* lines 175-179 *)
GoalDocLookup ==
  /\ gpc = "model"
  /\ \E text \in GoalTexts :
       LET act == GoalActionOf(variant, text)
       IN /\ act # Null
          /\ act.type = "doc_lookup"
          /\ goalAction' = act
          /\ GoalContinue(<< [type |-> "tool", message |-> makeMsg("tool", docText, "doc")] >>, hasPlan)
  /\ UNCHANGED <<notGoal, goalArgs, targetServer>>

(* lines 181-191: mcp_call without an active server *)
GoalMcpSkipped ==
  /\ gpc = "model"
  /\ \E text \in GoalTexts :
       LET act == GoalActionOf(variant, text)
       IN /\ act # Null
          /\ act.type = "mcp_call"
          /\ ResolveTargetServer(act.serverId, activeMcpServer) = Null
          /\ goalAction' = act
          /\ targetServer' = Null
          /\ GoalContinue(<< [type |-> "tool",
                              message |-> makeMsg("tool", "MCP call skipped: no active MCP server selected.",
                                                  "mcp")] >>, hasPlan)
  /\ UNCHANGED <<notGoal, goalArgs>>

(* the error message of the catch clause, lines 203-206 *)
McpErrorEvent(act, err) ==
  [type |-> "tool", message |-> makeMsg("tool", "MCP error for " \o act.tool \o ": " \o err, "mcp")]

(* lines 193-195 and 203-207: opening the connection throws (the
   EventSource constructor rejects the URL); no tool call is made *)
GoalMcpConnectThrows ==
  /\ gpc = "model"
  /\ \E text \in GoalTexts, err \in ToolErrors :
       LET act == GoalActionOf(variant, text)
           srv == ResolveTargetServer(act.serverId, activeMcpServer)
       IN /\ act # Null
          /\ act.type = "mcp_call"
          /\ srv # Null
          /\ goalAction' = act
          /\ targetServer' = srv
          /\ GoalContinue(<< McpErrorEvent(act, err) >>, hasPlan)
  /\ UNCHANGED <<notGoal, goalArgs>>

(* the call record of line 196 *)
ToolCall(srv, act) ==
  [kind |-> "tool", to |-> srv.id, tool |-> act.tool,
   input |-> IF act.input.t = "null" THEN O(<<>>) ELSE act.input]

(* the tool call that is not awaited: the next turn starts at once *)
GoalMcpCallNoAwait ==
  /\ gpc = "model"
  /\ \E text \in GoalTexts :
       LET act == GoalActionOf(variant, text)
           srv == ResolveTargetServer(act.serverId, activeMcpServer)
       IN /\ act # Null
          /\ act.type = "mcp_call"
          /\ srv # Null
          /\ goalAction' = act
          /\ targetServer' = srv
          /\ turn' = turn + 1
          /\ goalCalls' = goalCalls \o << ToolCall(srv, act), ModelCall(hasPlan, session) >>
          /\ gpc' = "model"
  /\ UNCHANGED <<notGoal, goalArgs, hasPlan, session, goalEvents, goalResult>>

(* lines 181-196: mcp_call with an active server, callTool is awaited *)
GoalMcpCall ==
  /\ gpc = "model"
  /\ \E text \in GoalTexts :
       LET act == GoalActionOf(variant, text)
           srv == ResolveTargetServer(act.serverId, activeMcpServer)
       IN /\ act # Null
          /\ act.type = "mcp_call"
          /\ srv # Null
          /\ goalAction' = act
          /\ targetServer' = srv
          /\ goalCalls' = Append(goalCalls, ToolCall(srv, act))
          /\ gpc' = "tool"
  /\ UNCHANGED <<notGoal, goalArgs, turn, hasPlan, session, goalEvents, goalResult>>

(* lines 196-202 and 207: callTool returned *)
GoalToolReturn ==
  /\ gpc = "tool"
  /\ \E out \in ToolOutputs :
       GoalContinue(<< [type |-> "tool",
                        message |-> makeMsg("tool",
                          "MCP " \o targetServer.name \o " -> " \o goalAction.tool
                            \o "\ninput:\n"
                            \o stringifyAny(IF goalAction.input.t = "null" THEN O(<<>>) ELSE goalAction.input)
                            \o "\noutput:\n" \o stringifyAny(out), "mcp")] >>, hasPlan)
  /\ UNCHANGED <<notGoal, goalArgs, goalAction, targetServer>>

(* a failed callTool that escapes runGoalDrivenTalk *)
GoalToolThrowsEscapes ==
  /\ gpc = "tool"
  /\ gpc' = "thrown"
  /\ UNCHANGED <<notGoal, goalArgs, turn, hasPlan, session, goalAction, targetServer,
                 goalEvents, goalCalls, goalResult>>

(* lines 196 and 203-207: callTool threw (request failed, error field,
   timeout); the error is caught *)
GoalToolThrows ==
  /\ gpc = "tool"
  /\ \E err \in ToolErrors :
       GoalContinue(<< McpErrorEvent(goalAction, err) >>, hasPlan)
  /\ UNCHANGED <<notGoal, goalArgs, goalAction, targetServer>>

(* part_005 lines 249-253 *)
GoalExecute ==
  /\ gpc = "model"
  /\ \E text \in GoalTexts :
       LET act == GoalActionOf(variant, text)
       IN /\ act # Null
          /\ act.type = "execute"
          /\ goalAction' = act
          /\ GoalContinue(<< [type |-> "assistant",
                              message |-> makeMsg("assistant", "Task: " \o act.task \o "\n\n" \o act.output,
                                                  AgentName)] >>, hasPlan)
  /\ UNCHANGED <<notGoal, goalArgs, targetServer>>

(* part_005 lines 255-262 *)
GoalReview ==
  /\ gpc = "model"
  /\ \E text \in GoalTexts :
       LET act == GoalActionOf(variant, text)
           status == IF act.ok THEN "done" ELSE "not done"
           note == IF act.notes # Undefined /\ act.notes # "" THEN "\nNotes: " \o act.notes ELSE ""
       IN /\ act # Null
          /\ act.type = "review"
          /\ goalAction' = act
          /\ GoalContinue(<< [type |-> "assistant",
                              message |-> makeMsg("assistant",
                                "Review: " \o act.task \o " - " \o status \o "." \o note, AgentName)],
                             [type |-> "review", task |-> act.task, ok |-> act.ok, notes |-> act.notes] >>,
                          hasPlan)
  /\ UNCHANGED <<notGoal, goalArgs, targetServer>>

(* lines 210-214 *)
GoalFinal ==
  /\ gpc = "model"
  /\ \E text \in GoalTexts :
       LET act == GoalActionOf(variant, text)
       IN /\ act # Null
          /\ act.type = "final"
          /\ goalAction' = act
          /\ GoalReturn(<< [type |-> "final", message |-> makeMsg("assistant", act.answer, AgentName)] >>,
                        act.answer)
  /\ UNCHANGED <<notGoal, goalArgs, targetServer>>

(* line 145: runOneToOne is awaited outside any try/catch: a backend
   exchange that rejects makes runGoalDrivenTalk reject *)
GoalBackendThrows ==
  /\ gpc = "model"
  /\ gpc' = "thrown"
  /\ UNCHANGED <<notGoal, goalArgs, turn, hasPlan, session, goalAction, targetServer,
                 goalEvents, goalCalls, goalResult>>

NextGoal ==
  \/ GoalStart
  \/ GoalInvalidReturn
  \/ GoalInvalidContinue
  \/ GoalThink
  \/ GoalPlan
  \/ GoalDocLookup
  \/ GoalMcpSkipped
  \/ GoalMcpConnectThrows
  \/ GoalMcpCall
  \/ GoalToolReturn
  \/ GoalToolThrows
  \/ GoalExecute
  \/ GoalReview
  \/ GoalFinal
  \/ GoalBackendThrows

SpecGoal == InitGoal /\ [][NextGoal]_vars

(* one invocation of either orchestrator *)
InitEither == Init \/ InitGoal

NextEither == Next \/ NextGoal

SpecEither == InitEither /\ [][NextEither]_vars

(***************************************************************************)
(* Part 3: the tool bridge                                                 *)
(***************************************************************************)

(* sseClient.ts line 83: the wait for a pushed answer, in ms *)
TimeoutMs == 15000

(* the clock of the model advances in this many steps per timeout *)
TicksPerTimeout == 3
TickMs == TimeoutMs \div TicksPerTimeout

(* line 70: the id of this request, and the id of some other request *)
OwnId == "r1"
OtherId == "r0"

(* the addresses a server may be configured with: an absolute one, and a
   same-origin relative one, which EventSource accepts and new URL(...)
   without a base does not *)
SseUrls == { "http://host/mcp/sse", "/mcp/sse" }

(* lines 53-55: new URL(cfg.sseUrl) with the path's final /sse replaced by
   /rpc; Undefined stands for the TypeError of an address that is not
   absolute *)
PostUrl(u) ==
  CASE u = "http://host/mcp/sse" -> "http://host/mcp/rpc"
    [] OTHER -> Undefined

ToolList == A(<< S("time") >>)
ToolResult == O([tools |-> ToolList])

(* an answer without a body *)
NoBody == [nobody |-> TRUE]

(* what the companion endpoint may answer: body is NoBody or the JSON object
   of the body *)
HttpResponses ==
  { [ok |-> FALSE, status |-> 500, body |-> NoBody],
    [ok |-> TRUE, status |-> 200, body |-> [id |-> S(OwnId), result |-> ToolResult]],
    [ok |-> TRUE, status |-> 200, body |-> [id |-> S(OwnId), error |-> S("boom")]],
    [ok |-> TRUE, status |-> 200, body |-> [id |-> S(OwnId), result |-> ToolResult, error |-> Null]],
    [ok |-> TRUE, status |-> 200, body |-> [id |-> S(OwnId)]],
    [ok |-> TRUE, status |-> 202, body |-> NoBody] }

(* fetch rejects *)
NetworkError == [ok |-> FALSE, status |-> 0, body |-> NoBody]

(* the frames of the push channel: answers to this request, an answer to
   another request, and a frame that is not JSON *)
OwnResultFrame == [id |-> S(OwnId), result |-> ToolResult]
OwnErrorFrame == [id |-> S(OwnId), error |-> S("late")]
OtherFrame == [id |-> S(OtherId), result |-> ToolResult]
GarbageFrame == [garbage |-> TRUE]

(* what the server may push after it has received the request *)
PushPlans ==
  { {}, {OwnResultFrame}, {OwnErrorFrame}, {OtherFrame, OwnResultFrame}, {GarbageFrame} }

(* line 74: the POST's answer carries a result or an error *)
IsImmediate(res) == "result" \in DOMAIN res \/ "error" \in DOMAIN res

(* String(res.error) on the errors in use *)
ErrorString(v) == IF v.t = "string" THEN v.v ELSE "null"

(* toolRegistry lines 10-13 and 16-19 after the await, with the error test
   left out *)
ToolOutcomeNoThrow(m, res) ==
  IF m = "tools/list"
    THEN [kind |-> "returned",
          value |-> IF "result" \in DOMAIN res /\ res["result"].t = "object"
                       /\ "tools" \in DOMAIN res["result"].v
                      THEN res["result"].v["tools"] ELSE A(<<>>)]
    ELSE [kind |-> "returned",
          value |-> IF "result" \in DOMAIN res THEN res["result"] ELSE Undefined]

(* toolRegistry lines 10-13 and 16-19 after the await: a truthy error is
   thrown, else the result (its tools, for listTools) is returned *)
ToolOutcome(m, res) ==
  IF Truthy(res, "error")
    THEN [kind |-> "thrown", value |-> ErrorString(res["error"])]
  ELSE IF m = "tools/list"
    THEN [kind |-> "returned",
          value |-> IF "result" \in DOMAIN res /\ res["result"].t = "object"
                       /\ "tools" \in DOMAIN res["result"].v
                      THEN res["result"].v["tools"] ELSE A(<<>>)]
    ELSE [kind |-> "returned",
          value |-> IF "result" \in DOMAIN res THEN res["result"] ELSE Undefined]

InitBridge ==
  /\ LeaderIdle
  /\ GoalIdle
  /\ StreamIdle
  /\ AdapterIdle
  /\ AppIdle
  /\ ParseIdle
  /\ method \in {"tools/list", "tools/call"}
  /\ sseUrl \in SseUrls
  /\ bpc = "start"
  /\ BridgeLocalsInit

(* request() resolves with res and listTools / callTool runs to its end *)
Resolve(res) ==
  /\ resolved' = Append(resolved, res)
  /\ toolOut' = ToolOutcome(method, res)
  /\ bpc' = toolOut'.kind

(* request() rejects and so does listTools / callTool *)
Reject(err) ==
  /\ toolOut' = [kind |-> "thrown", value |-> err]
  /\ bpc' = "thrown"
  /\ UNCHANGED resolved

(* lines 70-73 and 53: the address is not absolute, new URL throws before
   any request is made *)
BridgeUrlThrows ==
  /\ bpc = "start"
  /\ PostUrl(sseUrl) = Undefined
  /\ Reject("TypeError")
  /\ UNCHANGED <<notBridge, bridgeArgs, pending, posts, httpRes, srvPush, pushed, timer, elapsed>>

(* lines 70-73 and 53-61: the request is posted; the server chooses its
   answer and what it will push *)
BridgePost ==
  /\ bpc = "start"
  /\ PostUrl(sseUrl) # Undefined
  /\ posts' = Append(posts, [url |-> PostUrl(sseUrl), id |-> OwnId, method |-> method])
  /\ httpRes' \in HttpResponses \cup {NetworkError}
  /\ srvPush' \in PushPlans
  /\ bpc' = "post"
  /\ UNCHANGED <<notBridge, bridgeArgs, pending, pushed, timer, elapsed, resolved, toolOut>>

(* line 57: fetch rejects *)
BridgeFetchRejects ==
  /\ bpc = "post"
  /\ httpRes = NetworkError
  /\ Reject("network")
  /\ httpRes' = Null
  /\ UNCHANGED <<notBridge, bridgeArgs, pending, posts, srvPush, pushed, timer, elapsed>>

(* lines 63-65 and 74: a status outside 2xx becomes an error answer *)
BridgeNotOk ==
  /\ bpc = "post"
  /\ httpRes # NetworkError
  /\ ~httpRes.ok
  /\ Resolve([id |-> S(OwnId), error |-> S("HTTP 500")])
  /\ httpRes' = Null
  /\ UNCHANGED <<notBridge, bridgeArgs, pending, posts, srvPush, pushed, timer, elapsed>>

(* line 66: res.json() rejects on an answer without a body *)
BridgeJsonRejects ==
  /\ bpc = "post"
  /\ httpRes.ok
  /\ httpRes.body = NoBody
  /\ Reject("SyntaxError")
  /\ httpRes' = Null
  /\ UNCHANGED <<notBridge, bridgeArgs, pending, posts, srvPush, pushed, timer, elapsed>>

(* lines 66 and 74: the answer carries a result or an error *)
BridgeImmediate ==
  /\ bpc = "post"
  /\ httpRes.ok
  /\ httpRes.body # NoBody
  /\ IsImmediate(httpRes.body)
  /\ Resolve(httpRes.body)
  /\ httpRes' = Null
  /\ UNCHANGED <<notBridge, bridgeArgs, pending, posts, srvPush, pushed, timer, elapsed>>

(* lines 66 and 74-84: the answer carries neither, the resolver is
   registered and the timer set *)
BridgeDeferred ==
  /\ bpc = "post"
  /\ httpRes.ok
  /\ httpRes.body # NoBody
  /\ ~IsImmediate(httpRes.body)
  /\ pending' = pending \cup {OwnId}
  /\ timer' = "armed"
  /\ elapsed' = 0
  /\ bpc' = "wait"
  /\ httpRes' = Null
  /\ UNCHANGED <<notBridge, bridgeArgs, posts, srvPush, pushed, resolved, toolOut>>

(* lines 33-44: onmessage; a frame whose id is pending resolves the
   request, any other frame is dropped *)
BridgePush ==
  /\ bpc \in {"post", "wait", "returned", "thrown"}
  /\ \E frame \in srvPush :
       /\ srvPush' = srvPush \ {frame}
       /\ pushed' = Append(pushed, frame)
       /\ IF "id" \in DOMAIN frame /\ frame["id"].v \in pending
            THEN /\ pending' = pending \ {frame["id"].v}
                 /\ Resolve(frame)
            ELSE UNCHANGED <<pending, resolved, toolOut, bpc>>
  /\ UNCHANGED <<notBridge, bridgeArgs, posts, httpRes, timer, elapsed>>

(* time passes while the timer runs *)
BridgeTick ==
  /\ timer = "armed"
  /\ elapsed < TimeoutMs
  /\ elapsed' = elapsed + TickMs
  /\ UNCHANGED <<notBridge, bridgeArgs, bpc, pending, posts, httpRes, srvPush, pushed, timer,
                 resolved, toolOut>>

(* a timer that resolves the request whether or not it is still pending *)
BridgeTimeoutUnguarded ==
  /\ timer = "armed"
  /\ elapsed >= TimeoutMs
  /\ timer' = "fired"
  /\ pending' = pending \ {OwnId}
  /\ Resolve([id |-> S(OwnId), error |-> S("timeout")])
  /\ UNCHANGED <<notBridge, bridgeArgs, posts, httpRes, srvPush, pushed, elapsed>>

(* lines 78-83: the timer fires; a request that is still pending resolves
   with the timeout error *)
BridgeTimeout ==
  /\ timer = "armed"
  /\ elapsed >= TimeoutMs
  /\ timer' = "fired"
  /\ IF OwnId \in pending
       THEN /\ pending' = pending \ {OwnId}
            /\ Resolve([id |-> S(OwnId), error |-> S("timeout")])
       ELSE UNCHANGED <<pending, resolved, toolOut, bpc>>
  /\ UNCHANGED <<notBridge, bridgeArgs, posts, httpRes, srvPush, pushed, elapsed>>

NextBridge ==
  \/ BridgeUrlThrows
  \/ BridgePost
  \/ BridgeFetchRejects
  \/ BridgeNotOk
  \/ BridgeJsonRejects
  \/ BridgeImmediate
  \/ BridgeDeferred
  \/ BridgePush
  \/ BridgeTick
  \/ BridgeTimeout

SpecBridge == InitBridge /\ [][NextBridge]_vars

(***************************************************************************)
(* Part 4: one backend exchange                                            *)
(***************************************************************************)

(* the longest event sequence of the model *)
MaxEvents == 3

Delta(t) == [type |-> "delta", text |-> t]
Done(t) == [type |-> "done", text |-> t]

(* adapters/base.ts lines 17-19 *)
ChatEvents == { Delta("a"), Delta("b"), Done("ab"), Done("z") }

(* every sequence of at most MaxEvents events *)
Streams == UNION { [1..n -> ChatEvents] : n \in 0..MaxEvents }

(* a loop body that appends the text of a done event as well *)
StepFullAppends(f, ev) == f \o ev.text

(* oneToOne.ts lines 23-28: full after one event *)
StepFull(f, ev) == IF ev.type = "delta" THEN f \o ev.text ELSE ev.text

(* lines 23-25: what onDelta has received after one event *)
StepForward(fwd, ev) == IF ev.type = "delta" THEN Append(fwd, ev.text) ELSE fwd

InitStream ==
  /\ LeaderIdle
  /\ GoalIdle
  /\ BridgeIdle
  /\ AdapterIdle
  /\ AppIdle
  /\ ParseIdle
  /\ stream \in Streams
  /\ spc = "loop"
  /\ spos = 1
  /\ full = ""
  /\ forwarded = <<>>
  /\ sResult = Undefined

(* lines 15-29: the adapter yields its next event *)
StreamEvent ==
  /\ spc = "loop"
  /\ spos <= Len(stream)
  /\ full' = StepFull(full, stream[spos])
  /\ forwarded' = StepForward(forwarded, stream[spos])
  /\ spos' = spos + 1
  /\ UNCHANGED <<notStream, stream, spc, sResult>>

(* lines 29-30: the generator is exhausted *)
StreamEnd ==
  /\ spc = "loop"
  /\ spos > Len(stream)
  /\ sResult' = full
  /\ spc' = "returned"
  /\ UNCHANGED <<notStream, stream, spos, full, forwarded>>

(* line 15: the generator throws instead of yielding its next event *)
StreamThrows ==
  /\ spc = "loop"
  /\ spos <= Len(stream)
  /\ spc' = "thrown"
  /\ UNCHANGED <<notStream, stream, spos, full, forwarded, sResult>>

NextStream == StreamEvent \/ StreamEnd \/ StreamThrows

SpecStream == InitStream /\ [][NextStream]_vars

(***************************************************************************)
(* Part 5: the request loop of the OpenAI-compatible adapter               *)
(***************************************************************************)

(* the largest retry.max of the model *)
MaxAdapterRetry == 3

(* what one fetch may come to: a rejection, or a response with its status
   and whether it has a body *)
FetchRejected == [rejected |-> TRUE, status |-> 0, ok |-> FALSE, hasBody |-> FALSE]
Response(status, hasBody) ==
  [rejected |-> FALSE, status |-> status, ok |-> (status >= 200 /\ status <= 299),
   hasBody |-> hasBody]
FetchOutcomes ==
  { FetchRejected, Response(429, TRUE), Response(500, TRUE), Response(200, TRUE),
    Response(200, FALSE) }

(* openaiCompat.ts line 36: Math.max(0, req.retry?.max ?? 0) *)
AdapterRetryMax(arg) == IF arg = Null THEN 0 ELSE IF arg.max < 0 THEN 0 ELSE arg.max

(* line 71: the loop is left with a usable response *)
Usable(r) == ~r.rejected /\ r.ok /\ r.hasBody

(* a retry after any failure while attempts remain *)
ShouldRetryAnyFailure(r, att, max) == att < max

(* lines 62 and 74: a rejected fetch or a status of 429, while attempts
   remain *)
ShouldRetry(r, att, max) ==
  /\ att < max
  /\ (r.rejected \/ r.status = 429)

(* lines 63 and 75 *)
RetryLog(r, att, max) ==
  [what |-> IF r.rejected THEN "[retry] network error" ELSE "[retry] HTTP 429",
   attempt |-> att + 1, of |-> max]

(* lines 67 and 79 *)
FailureEvent(r) ==
  Done(IF r.rejected THEN "Request failed: network"
       ELSE "Request failed: HTTP " \o ToString(r.status))

InitAdapter ==
  /\ LeaderIdle
  /\ GoalIdle
  /\ BridgeIdle
  /\ StreamIdle
  /\ AppIdle
  /\ ParseIdle
  /\ retryArg \in {Null} \cup { [max |-> n] : n \in -1..MaxAdapterRetry }
  /\ apc = "start"
  /\ attempt = 0
  /\ response = Null
  /\ fetched = <<>>
  /\ logs = <<>>
  /\ yielded = <<>>

(* lines 48-60: a request is sent *)
Fetch ==
  /\ response' \in FetchOutcomes
  /\ fetched' = Append(fetched, response')
  /\ apc' = "fetch"

(* lines 33-48: the first request *)
AdapterStart ==
  /\ apc = "start"
  /\ Fetch
  /\ UNCHANGED <<notAdapter, retryArg, attempt, logs, yielded>>

(* lines 61-66 and 73-77: a failure that is retried is logged, and the
   generator sleeps *)
AdapterRetry ==
  /\ apc = "fetch"
  /\ ~Usable(response)
  /\ ShouldRetry(response, attempt, AdapterRetryMax(retryArg))
  /\ logs' = Append(logs, RetryLog(response, attempt, AdapterRetryMax(retryArg)))
  /\ apc' = "sleep"
  /\ UNCHANGED <<notAdapter, retryArg, attempt, response, fetched, yielded>>

(* lines 46 and 64-65, 76-77: the sleep is over, the next attempt *)
AdapterWake ==
  /\ apc = "sleep"
  /\ attempt' = attempt + 1
  /\ Fetch
  /\ UNCHANGED <<notAdapter, retryArg, logs, yielded>>

(* lines 67-68 and 79-80: a failure that is not retried ends the stream
   with one done event *)
AdapterFail ==
  /\ apc = "fetch"
  /\ ~Usable(response)
  /\ ~ShouldRetry(response, attempt, AdapterRetryMax(retryArg))
  /\ yielded' = Append(yielded, FailureEvent(response))
  /\ apc' = "ended"
  /\ UNCHANGED <<notAdapter, retryArg, attempt, response, fetched, logs>>

(* line 71: the loop is left, the answer is streamed by lines 88-148 *)
AdapterBreak ==
  /\ apc = "fetch"
  /\ Usable(response)
  /\ apc' = "stream"
  /\ UNCHANGED <<notAdapter, retryArg, attempt, response, fetched, logs, yielded>>

NextAdapter == AdapterStart \/ AdapterRetry \/ AdapterWake \/ AdapterFail \/ AdapterBreak

SpecAdapter == InitAdapter /\ [][NextAdapter]_vars

(***************************************************************************)
(* Part 6: the chat page                                                   *)
(***************************************************************************)

(* the largest number of sends of the model *)
MaxSends == 2

(* the documents of the vault *)
D1 == [id |-> "d1", title |-> "T1", content |-> "c1"]
D2 == [id |-> "d2", title |-> "T2", content |-> "c2"]

AllowList(ids) == [has |-> TRUE, ids |-> ids]

(* the vault and the active agent's allowedDocIds: no list, a list that
   names one document, a list that names a document that is not there, an
   empty list, and an empty vault *)
DocConfigs ==
  { [docs |-> <<D1, D2>>, allowed |-> NoAllowList],
    [docs |-> <<D1, D2>>, allowed |-> AllowList({"d2", "ghost"})],
    [docs |-> <<D1, D2>>, allowed |-> AllowList({})],
    [docs |-> <<>>, allowed |-> NoAllowList] }

(* what the page may be set to when a send is made *)
AppConfigs ==
  { [mode |-> "one_to_one", doc |-> d, server |-> srv, team |-> 0] :
      d \in DocConfigs, srv \in {Null, SrvA} }
  \cup
  { [mode |-> "leader_team", doc |-> CHOOSE d \in DocConfigs : d.allowed = AllowList({"d2", "ghost"}),
     server |-> Null, team |-> n] : n \in {0, 1} }

AppInput == "hi"
FollowupInput == "Tool result received. Provide the final answer to the user."

(* the texts the backend may answer a send with, and a follow-up with;
   "call_time" stands for {"type":"mcp_call","tool":"time","input":{}} and
   "CALL_echo" for {"action":"MCP_CALL","tool":"echo"} *)
AppTexts ==
  { Text("ok", FALSE, FALSE, FALSE, FALSE, Null),
    Text("answer", FALSE, FALSE, FALSE, FALSE, Null),
    Strict("call_time", [type |-> S("mcp_call"), tool |-> S("time"), input |-> O(<<>>)]),
    Strict("CALL_echo", [action |-> S("MCP_CALL"), tool |-> S("echo")]) }
FirstTexts == { "ok", "call_time", "CALL_echo" }
FollowupTexts == { "answer", "call_time" }

(* the text a string is: one of the texts above, else prose *)
AppTextOf(c) ==
  IF \E t \in AppTexts : t.id = c THEN CHOOSE t \in AppTexts : t.id = c
  ELSE Text(c, FALSE, FALSE, FALSE, FALSE, Null)

(* App.tsx lines 33-41: one strict JSON.parse of the span *)
appExtractJsonObject(c) == goalExtractJsonObject(AppTextOf(c))

(* App.tsx lines 43-55 *)
normalizeMcpAction(obj) ==
  IF obj = Null THEN Null
  ELSE
    LET type == IF TypeOf(obj, "type") = "string" THEN toLowerCase(obj["type"].v)
                ELSE IF TypeOf(obj, "action") = "string" THEN toLowerCase(obj["action"].v)
                ELSE ""
    IN IF type = "mcp_call" /\ TypeOf(obj, "tool") = "string" THEN McpAction(obj) ELSE Null

(* lines 27-29; the id is the position the message is added at, the
   timestamp is left out *)
appMsg(id, role, content, name) == [id |-> id, role |-> role, content |-> content, name |-> name]

(* every document, whatever the allow-list *)
docsForAgentAll(ds, allowed) == ds

(* lines 265-270 *)
docsForAgent(ds, allowed) ==
  IF ~allowed.has THEN ds
  ELSE SelectSeq(ds, LAMBDA d : d.id \in allowed.ids)

(* lines 354-355: one block per document, and no system text without a
   block *)
SystemOf(ds) ==
  IF ds = <<>> THEN NoSystem
  ELSE [defined |-> TRUE,
        blocks |-> [i \in 1..Len(ds) |-> [title |-> ds[i].title, content |-> ds[i].content]]]

ChatRequest(input, hist, system) == [input |-> input, history |-> hist, system |-> system]

(* setHistory((h) => h.map(...)) of lines 376, 418 and 448 *)
SetContent(h, id, c) ==
  [i \in 1..Len(h) |-> IF h[i].id = id THEN [h[i] EXCEPT !.content = c] ELSE h[i]]
AddContent(h, id, t) ==
  [i \in 1..Len(h) |-> IF h[i].id = id THEN [h[i] EXCEPT !.content = @ \o t] ELSE h[i]]

NextId == Len(conversation) + 1

InitApp ==
  /\ LeaderIdle
  /\ GoalIdle
  /\ BridgeIdle
  /\ StreamIdle
  /\ AdapterIdle
  /\ ParseIdle
  /\ \E cfg \in AppConfigs :
       /\ mode = cfg.mode
       /\ docs = cfg.doc.docs
       /\ allowedDocIds = cfg.doc.allowed
       /\ appMcpServer = cfg.server
       /\ teamSize = cfg.team
  /\ opc = "ready"
  /\ AppLocalsInit

(* onSend is over: how it ended, and which collaborator had thrown, if any *)
EndSendWith(outcome, failed) ==
  /\ opc' = "ready"
  /\ sends' = sends + 1
  /\ sendEnds' = Append(sendEnds, [outcome |-> outcome, failed |-> failed])

(* onSend returns, no collaborator has thrown *)
EndSend == EndSendWith("returned", "none")

(* lines 340-393: a send in one-to-one mode up to the await of the exchange *)
AppSendOneToOne ==
  /\ opc = "ready"
  /\ sends < MaxSends
  /\ mode = "one_to_one"
  /\ LET userMsg == appMsg(NextId, "user", AppInput, "user")
         sys == SystemOf(docsForAgent(docs, allowedDocIds))
     IN /\ userSystem' = sys
        /\ baseHistory' = Append(conversation, userMsg)
        /\ assistantId' = NextId + 1
        /\ conversation' = conversation \o << userMsg, appMsg(NextId + 1, "assistant", "", AgentName) >>
        /\ requests' = Append(requests, ChatRequest(AppInput, Append(conversation, userMsg), sys))
  /\ acc' = ""
  /\ streamed' = FALSE
  /\ opc' = "chat"
  /\ UNCHANGED <<notApp, appArgs, sends, sendEnds, followupId, appFull, mcpAction, toolCalls, teamEvents>>

(* lines 340-366 and 472-478: a send in leader-team mode without members *)
AppSendNoMembers ==
  /\ opc = "ready"
  /\ sends < MaxSends
  /\ mode = "leader_team"
  /\ teamSize = 0
  /\ LET userMsg == appMsg(NextId, "user", AppInput, "user")
     IN /\ userSystem' = SystemOf(docsForAgent(docs, allowedDocIds))
        /\ baseHistory' = Append(conversation, userMsg)
        /\ conversation' = conversation \o
             << userMsg,
                appMsg(NextId + 1, "assistant",
                       "No member agents selected. Please select at least one member.", "system") >>
  /\ EndSend
  /\ UNCHANGED <<notApp, appArgs, assistantId, followupId, appFull, mcpAction, acc, streamed,
                 requests, toolCalls, teamEvents>>

(* lines 340-366, 472-491 and 604-621: a send in leader-team mode up to the
   await of the run *)
AppSendTeam ==
  /\ opc = "ready"
  /\ sends < MaxSends
  /\ mode = "leader_team"
  /\ teamSize > 0
  /\ LET userMsg == appMsg(NextId, "user", AppInput, "user")
         sys == SystemOf(docsForAgent(docs, allowedDocIds))
     IN /\ userSystem' = sys
        /\ baseHistory' = Append(conversation, userMsg)
        /\ conversation' = conversation \o
             << userMsg,
                appMsg(NextId + 1, "assistant",
                       "Goal received. I'll coordinate the team to achieve it.", AgentName) >>
        /\ requests' = Append(requests, ChatRequest(AppInput, Append(conversation, userMsg), sys))
  /\ teamEvents' = 0
  /\ opc' = "team"
  /\ UNCHANGED <<notApp, appArgs, sends, sendEnds, assistantId, followupId, appFull, mcpAction,
                 acc, streamed, toolCalls>>

(* lines 376-382 and 447-449 with oneToOne.ts 23-25: a delta of the
   exchange in flight is added to its message *)
AppDelta ==
  /\ opc \in {"chat", "followup"}
  /\ ~streamed
  /\ \E t \in (IF opc = "chat" THEN FirstTexts ELSE FollowupTexts) :
       /\ acc' = StepFull(acc, Delta(t))
       /\ conversation' = AddContent(conversation,
                                     IF opc = "chat" THEN assistantId ELSE followupId, t)
  /\ streamed' = TRUE
  /\ UNCHANGED <<notApp, appArgs, opc, sends, sendEnds, appLocals, requests, toolCalls, teamEvents>>

(* oneToOne.ts 26-30: the texts an exchange may return when its stream
   ends: after a delta the text so far (the stream ends there, or with a
   done event of the same text), else the text of a done event *)
EndTexts(texts) ==
  IF streamed THEN { acc, StepFull(acc, Done(acc)) }
  ELSE { StepFull(acc, Done(t)) : t \in texts }

(* lines 385-406: the exchange returns a text that is no tool call *)
AppNoAction ==
  /\ opc = "chat"
  /\ \E f \in EndTexts(FirstTexts) :
       /\ normalizeMcpAction(appExtractJsonObject(f)) = Null
       /\ appFull' = f
       /\ mcpAction' = Null
  /\ EndSend
  /\ UNCHANGED <<notApp, appArgs, conversation, baseHistory, userSystem, assistantId, followupId,
                 acc, streamed, requests, toolCalls, teamEvents>>

(* lines 385-416: a tool call, and no active server *)
AppSkipped ==
  /\ opc = "chat"
  /\ appMcpServer = Null
  /\ \E f \in EndTexts(FirstTexts) :
       /\ normalizeMcpAction(appExtractJsonObject(f)) # Null
       /\ appFull' = f
       /\ mcpAction' = normalizeMcpAction(appExtractJsonObject(f))
  /\ conversation' = Append(conversation,
                            appMsg(NextId, "tool", "MCP call skipped: no active MCP server selected.", "mcp"))
  /\ EndSend
  /\ UNCHANGED <<notApp, appArgs, baseHistory, userSystem, assistantId, followupId,
                 acc, streamed, requests, toolCalls, teamEvents>>

(* line 433 *)
AppMcpError(tool, err) == "MCP error for " \o tool \o ": " \o err

(* lines 385-423 and 432-436: a tool call; opening the connection throws
   (the EventSource constructor rejects the address) and callTool is not
   reached *)
AppConnectThrows ==
  /\ opc = "chat"
  /\ appMcpServer # Null
  /\ \E f \in EndTexts(FirstTexts), err \in ToolErrors :
       LET act == normalizeMcpAction(appExtractJsonObject(f))
       IN /\ act # Null
          /\ appFull' = f
          /\ mcpAction' = act
          /\ conversation' =
               Append(SetContent(conversation, assistantId, "Calling MCP tool: " \o act.tool),
                      appMsg(NextId, "tool", AppMcpError(act.tool, err), "mcp"))
  /\ EndSendWith("returned", "transport")
  /\ UNCHANGED <<notApp, appArgs, baseHistory, userSystem, assistantId, followupId,
                 acc, streamed, requests, toolCalls, teamEvents>>

(* a tool call that is made without waiting for the first one to be
   recorded: callTool is invoked twice *)
AppCallToolTwice ==
  /\ opc = "chat"
  /\ appMcpServer # Null
  /\ \E f \in EndTexts(FirstTexts) :
       LET act == normalizeMcpAction(appExtractJsonObject(f))
       IN /\ act # Null
          /\ appFull' = f
          /\ mcpAction' = act
          /\ conversation' = SetContent(conversation, assistantId, "Calling MCP tool: " \o act.tool)
          /\ toolCalls' = toolCalls \o << ToolCall(appMcpServer, act), ToolCall(appMcpServer, act) >>
  /\ opc' = "tool"
  /\ UNCHANGED <<notApp, appArgs, sends, sendEnds, baseHistory, userSystem, assistantId, followupId,
                 acc, streamed, requests, teamEvents>>

(* lines 385-424: a tool call, callTool is invoked and awaited *)
AppCallTool ==
  /\ opc = "chat"
  /\ appMcpServer # Null
  /\ \E f \in EndTexts(FirstTexts) :
       LET act == normalizeMcpAction(appExtractJsonObject(f))
       IN /\ act # Null
          /\ appFull' = f
          /\ mcpAction' = act
          /\ conversation' = SetContent(conversation, assistantId, "Calling MCP tool: " \o act.tool)
          /\ toolCalls' = Append(toolCalls, ToolCall(appMcpServer, act))
  /\ opc' = "tool"
  /\ UNCHANGED <<notApp, appArgs, sends, sendEnds, baseHistory, userSystem, assistantId, followupId,
                 acc, streamed, requests, teamEvents>>

(* lines 438-442 *)
ToolMsg(id, srv, act, out) ==
  appMsg(id, "tool",
         "MCP " \o srv.name \o " -> " \o act.tool \o "\ninput:\n"
           \o stringifyAny(IF act.input.t = "null" THEN O(<<>>) ELSE act.input)
           \o "\noutput:\n" \o stringifyAny(out), "mcp")

(* lines 424 and 432-436: callTool throws *)
AppToolThrows ==
  /\ opc = "tool"
  /\ \E err \in ToolErrors :
       conversation' = Append(conversation, appMsg(NextId, "tool", AppMcpError(mcpAction.tool, err), "mcp"))
  /\ EndSendWith("returned", "transport")
  /\ UNCHANGED <<notApp, appArgs, appLocals, acc, streamed, requests, toolCalls, teamEvents>>

(* lines 424-460: callTool returns; the tool message is added and the
   follow-up exchange opened *)
AppToolReturn ==
  /\ opc = "tool"
  /\ \E out \in ToolOutputs :
       LET toolMsg == ToolMsg(NextId, appMcpServer, mcpAction, out)
       IN /\ conversation' = conversation \o << toolMsg, appMsg(NextId + 1, "assistant", "", AgentName) >>
          /\ requests' = Append(requests,
               ChatRequest(FollowupInput,
                           baseHistory \o << appMsg(0, "assistant", appFull, AgentName), toolMsg >>,
                           userSystem))
  /\ followupId' = NextId + 1
  /\ acc' = ""
  /\ streamed' = FALSE
  /\ opc' = "followup"
  /\ UNCHANGED <<notApp, appArgs, sends, sendEnds, baseHistory, userSystem, assistantId, appFull,
                 mcpAction, toolCalls, teamEvents>>

(* lines 451-468: the follow-up exchange returns; its text is not looked at *)
AppFollowupEnd ==
  /\ opc = "followup"
  /\ \E f \in EndTexts(FollowupTexts) : TRUE
  /\ EndSend
  /\ UNCHANGED <<notApp, appArgs, conversation, appLocals, acc, streamed, requests, toolCalls,
                 teamEvents>>

(* lines 492-602: the run reports an event, which is shown as a message *)
AppTeamEvent ==
  /\ opc = "team"
  /\ teamEvents < 1
  /\ teamEvents' = teamEvents + 1
  /\ conversation' = Append(conversation, appMsg(NextId, "assistant", "event", AgentName))
  /\ UNCHANGED <<notApp, appArgs, opc, sends, sendEnds, appLocals, acc, streamed, requests, toolCalls>>

(* lines 604-628: the run returns *)
AppTeamReturn ==
  /\ opc = "team"
  /\ EndSend
  /\ UNCHANGED <<notApp, appArgs, conversation, appLocals, acc, streamed, requests, toolCalls,
                 teamEvents>>

(* a backend failure that is not caught *)
AppBackendThrowsEscapes ==
  /\ opc \in {"chat", "followup", "team"}
  /\ EndSendWith("thrown", "backend")
  /\ UNCHANGED <<notApp, appArgs, conversation, appLocals, acc, streamed, requests, toolCalls,
                 teamEvents>>

(* lines 368 and 629-632: the exchange or the run throws; the catch adds
   the error message *)
AppBackendThrows ==
  /\ opc \in {"chat", "followup", "team"}
  /\ conversation' = Append(conversation, appMsg(NextId, "assistant", "[ERROR]\nfailed", "system"))
  /\ EndSendWith("returned", "backend")
  /\ UNCHANGED <<notApp, appArgs, appLocals, acc, streamed, requests, toolCalls, teamEvents>>

NextApp ==
  \/ AppSendOneToOne
  \/ AppSendNoMembers
  \/ AppSendTeam
  \/ AppDelta
  \/ AppNoAction
  \/ AppSkipped
  \/ AppConnectThrows
  \/ AppCallTool
  \/ AppToolThrows
  \/ AppToolReturn
  \/ AppFollowupEnd
  \/ AppTeamEvent
  \/ AppTeamReturn
  \/ AppBackendThrows

SpecApp == InitApp /\ [][NextApp]_vars

(***************************************************************************)
(* Part 7: the parsers taken alone                                         *)
(***************************************************************************)

(* leaderTeam.ts, goalDrivenTalk.ts, the plan/execute/review variant *)
Parsers == { "leader", "src", "loop" }

(* the ways a reply may write a discriminator: as the prompt gives it, in
   upper case, and padded with blanks *)
Spellings(d) ==
  CASE d = "finish" -> { "finish", "FINISH", " finish " }
    [] d = "ask_member" -> { "ask_member", "ASK_MEMBER", " ask_member " }
    [] d = "final" -> { "final", "FINAL", " final " }
    [] d = "mcp_call" -> { "mcp_call", "MCP_CALL", " mcp_call " }
    [] d = "doc_lookup" -> { "doc_lookup", "DOC_LOOKUP", " doc_lookup " }
    [] d = "plan" -> { "plan", "PLAN", " plan " }
    [] OTHER -> { d }

(* where a reply may put the discriminator: in type, in the legacy field
   action, or in action beside a type that is no string *)
Places == { "type", "action", "action_null_type" }

(* the actions a leader reply may mean, well typed and not *)
LeaderReplies ==
  { [d |-> "finish", fields |-> [answer |-> S("done")]],
    [d |-> "finish", fields |-> [answer |-> B(TRUE)]],
    [d |-> "ask_member", fields |-> [memberId |-> S("m1"), message |-> S("x")]],
    [d |-> "ask_member", fields |-> [memberId |-> S("m1")]],
    [d |-> "wait", fields |-> [answer |-> S("done")]] }

(* the actions an agent reply of the goal-driven loop may mean *)
AgentReplies ==
  { [d |-> "final", fields |-> [answer |-> S("ans")]],
    [d |-> "final", fields |-> [answer |-> B(TRUE)]],
    [d |-> "mcp_call", fields |-> [tool |-> S("t1")]],
    [d |-> "mcp_call", fields |-> [tool |-> B(TRUE)]],
    [d |-> "doc_lookup", fields |-> [query |-> S("q")]],
    [d |-> "plan", fields |-> [items |-> A(<< O([goal |-> S("g1"), agent |-> S("agent")]) >>)]],
    [d |-> "plan", fields |-> [items |-> A(<<>>)]],
    [d |-> "wait", fields |-> [answer |-> S("ans")]] }

(* the JSON object of a reply: its fields and the discriminator as written *)
Render(fields, written, place) ==
  CASE place = "type" -> [type |-> S(written)] @@ fields
    [] place = "action" -> [action |-> S(written)] @@ fields
    [] OTHER -> [type |-> Null, action |-> S(written)] @@ fields

ParseObjects(p) ==
  UNION { { Render(r.fields, w, place) : w \in Spellings(r.d), place \in Places } :
            r \in (IF p = "leader" THEN LeaderReplies ELSE AgentReplies) }

(* the texts a backend may return to parser p: prose without any brace, and
   each object written with any of the defects and with or without a
   typographic quote inside a string value *)
ParseTexts(p) ==
  { Text("t", FALSE, FALSE, FALSE, FALSE, Null) } \cup
  { (IF q THEN Quoted(Text("t", TRUE, s, c, b, o)) ELSE Text("t", TRUE, s, c, b, o)) :
      s \in BOOLEAN, c \in BOOLEAN, b \in BOOLEAN, q \in BOOLEAN, o \in ParseObjects(p) }

(* leaderTeam.ts line 346, goalDrivenTalk.ts line 154, part_005 line 191:
   the extractJsonObject of the file *)
ExtractOf(p, text) ==
  IF p = "leader" THEN extractJsonObject(text) ELSE goalExtractJsonObject(text)

(* leaderTeam.ts line 347, goalDrivenTalk.ts line 154, part_005 line 191:
   the normalizeAction of the file *)
NormalizeOf(p, obj) ==
  CASE p = "leader" -> normalizeAction(obj)
    [] p = "src" -> goalNormalizeAction(obj)
    [] OTHER -> loopNormalizeAction(obj)

InitParse ==
  /\ LeaderIdle
  /\ GoalIdle
  /\ BridgeIdle
  /\ StreamIdle
  /\ AdapterIdle
  /\ AppIdle
  /\ parser \in Parsers
  /\ modelText \in ParseTexts(parser)
  /\ ppc = "text"
  /\ extracted = <<>>
  /\ normalized = Null

(* the text is handed to extractJsonObject *)
ParseExtract ==
  /\ ppc = "text"
  /\ extracted' = << ExtractOf(parser, modelText) >>
  /\ ppc' = "extracted"
  /\ UNCHANGED <<notParse, parser, modelText, normalized>>

(* what it returned is handed to normalizeAction *)
ParseNormalize ==
  /\ ppc = "extracted"
  /\ normalized' = NormalizeOf(parser, extracted[1])
  /\ ppc' = "normalized"
  /\ UNCHANGED <<notParse, parser, modelText, extracted>>

(* extractJsonObject is called on the same text once more: the regex has no
   g flag and the function keeps nothing between calls *)
ParseAgain ==
  /\ ppc = "normalized"
  /\ extracted' = Append(extracted, ExtractOf(parser, modelText))
  /\ ppc' = "done"
  /\ UNCHANGED <<notParse, parser, modelText, normalized>>

NextParse ==
  \/ ParseExtract
  \/ ParseNormalize
  \/ ParseAgain

SpecParse == InitParse /\ [][NextParse]_vars


(* ---------------- observations used by the properties ---------------- *)
CountCalls(kind) == Cardinality({ i \in 1..Len(calls) : calls[i].kind = kind })
CountEvents(type) == Cardinality({ i \in 1..Len(events) : events[i].type = type })
LastEvent == events[Len(events)]

ParsedAction(text) == normalizeAction(extractJsonObject(text))
IsInvalid(text) == ParsedAction(text) = Null
IsFinish(text) == ParsedAction(text) # Null /\ ParsedAction(text).type = "finish"
IsAsk(text) == ParsedAction(text) # Null /\ ParsedAction(text).type = "ask_member"
(* a main-round leader response has just been consumed by this step *)
RoundResponse == pc = "leader" /\ pc' # "thrown"

(* ---------------- C1 ---------------- *)
(* C1 as stated: a session never issues more than maxRounds main-round
   leader calls, whatever the retry configuration. *)
C1_RoundBoundAsStated == CountCalls("leader") <= maxRounds

(* C1 amended: a session issues at most maxRounds + retryMax main-round
   leader calls; every call beyond maxRounds is the retry of an invalid
   action, and there are at most retryMax retries. *)
C1_RoundBound ==
  /\ invalidActionRetries <= retryMax
  /\ CountCalls("leader") <= maxRounds + invalidActionRetries
  /\ CountCalls("leader") <= maxRounds + retryMax
  /\ (CountCalls("final") > 0 => CountCalls("leader") - invalidActionRetries = maxRounds)

C1_Witness ==
  /\ pc = "final"
  /\ maxRounds = MaxRoundsBound
  /\ retryMax >= 1
  /\ CountCalls("leader") = maxRounds + retryMax

(* ---------------- C2 ---------------- *)
(* C2 as stated: a well-formed ask_member naming an unknown member ends the
   session within that round with the raw leader text and without any
   member call. *)
C2_UnknownMemberAsStated ==
  [][ (RoundResponse /\ IsAsk(leaderText')
         /\ ParsedAction(leaderText').memberId \notin MemberIds(members))
      => (pc' = "returned" /\ result' = leaderText'.id /\ calls' = calls) ]_vars

(* C2 amended: the session ends that way whenever the member id the round
   resolves to is unknown, where the round resolves to the planned
   assignment's member when the plan holds any assignment and to the
   action's own memberId otherwise. *)
C2_UnknownMember ==
  [][ (RoundResponse /\ IsAsk(leaderText')
         /\ (IF Len(plannedAssignments) > 0
               THEN plannedAssignments[IF planIndex < Len(plannedAssignments)
                                         THEN planIndex + 1
                                         ELSE Len(plannedAssignments)].memberId
               ELSE ParsedAction(leaderText').memberId) \notin MemberIds(members))
      => ( /\ pc' = "returned"
           /\ result' = leaderText'.id
           /\ deltas' = Append(deltas, leaderText'.id)
           /\ calls' = calls
           /\ round' = round ) ]_vars

C2_Witness ==
  /\ pc = "returned"
  /\ IsAsk(leaderText)
  /\ ParsedAction(leaderText).memberId \notin MemberIds(members)
  /\ result = leaderText.id
  /\ CountCalls("member") = 0

(* ---------------- C3 ---------------- *)
(* C3: over a whole session the number of react re-delegations (leader_react
   events, react member calls) never exceeds reactMax, and the react counter
   never decreases, in particular not when the round advances. *)
C3_ReactBound ==
  /\ [](/\ CountCalls("react") <= reactMax
        /\ CountEvents("leader_react") <= reactMax
        /\ reactCount = CountCalls("react"))
  /\ [][reactCount' >= reactCount]_vars

(* a react was asked for in a later round and refused: the budget was spent *)
C3_Witness ==
  /\ reactMax >= 1
  /\ reactCount = reactMax
  /\ round >= 3
  /\ pc = "final"
  /\ LastEvent.type = "leader_verify"
  /\ LastEvent.raw = "v_react_m2"

(* ---------------- C4 ---------------- *)
PlanTextOf(id) == CHOOSE t \in AllPlanTexts : t.id = id

(* the planning text holds no valid assignment: it does not parse, has no
   assignments array, or every entry is ill-typed or names an unknown member *)
ZeroValidAssignments(text) ==
  LET obj == extractJsonObject(text)
  IN \/ obj = Null
     \/ TypeOf(obj, "assignments") # "array"
     \/ \A i \in 1..Len(obj["assignments"].v) :
          LET a == obj["assignments"].v[i]
          IN ~( /\ a.t = "object"
                /\ TypeOf(a.v, "memberId") = "string"
                /\ TypeOf(a.v, "message") = "string"
                /\ a.v["memberId"].v \in MemberIds(members) )

(* C4: when the planning text yields zero valid assignments the plan is one
   empty-message assignment per configured member, in member order. *)
C4_PlanFallback ==
  (Len(events) >= 1 /\ ZeroValidAssignments(PlanTextOf(events[1].raw)))
    => /\ plannedAssignments = [i \in 1..Len(members) |-> [memberId |-> members[i], message |-> ""]]
       /\ events[1].assignments = plannedAssignments

C4_Witness ==
  /\ Len(events) >= 1
  /\ events[1].raw = "plan_ghost"
  /\ members = <<"m2", "m1">>
  /\ Len(plannedAssignments) = 2


(* ---------------- C5 ---------------- *)
PlanExhausted == planIndex >= Len(plannedAssignments)

(* C5 as stated: once the plan is exhausted an ask_member is resolved to the
   member the action names: that member is invoked when it is known, and
   the session ends with the raw text when it is not. *)
C5_ExhaustedFallbackAsStated ==
  [][ (RoundResponse /\ IsAsk(leaderText') /\ PlanExhausted)
      => IF ParsedAction(leaderText').memberId \in MemberIds(members)
           THEN pc' = "member" /\ member' = ParsedAction(leaderText').memberId
           ELSE pc' = "returned" /\ result' = leaderText'.id ]_vars

(* C5 amended: once the plan is exhausted an ask_member is resolved to the
   member of the last planned assignment, whatever member the action names;
   the action's own memberId is used only when the plan holds no assignment
   at all. *)
C5_ExhaustedFallback ==
  [][ (RoundResponse /\ IsAsk(leaderText') /\ PlanExhausted)
      => IF Len(plannedAssignments) > 0
           THEN /\ pc' = "member"
                /\ member' = plannedAssignments[Len(plannedAssignments)].memberId
                /\ calls'[Len(calls')].kind = "member"
                /\ calls'[Len(calls')].to = plannedAssignments[Len(plannedAssignments)].memberId
           ELSE IF ParsedAction(leaderText').memberId \in MemberIds(members)
             THEN pc' = "member" /\ member' = ParsedAction(leaderText').memberId
             ELSE pc' = "returned" /\ result' = leaderText'.id ]_vars

(* the plan is exhausted, the action names an unknown member, the last
   planned member is being invoked *)
C5_Witness ==
  /\ pc = "member"
  /\ PlanExhausted
  /\ Len(plannedAssignments) > 0
  /\ action.memberId \notin MemberIds(members)
  /\ member = plannedAssignments[Len(plannedAssignments)].memberId

(* ---------------- C6 ---------------- *)
(* C6: in a round whose index the plan still covers, an ask_member invokes
   the member of the planned assignment at that index, whatever memberId
   the action names. *)
C6_PlanPrecedence ==
  [][ (RoundResponse /\ IsAsk(leaderText') /\ ~PlanExhausted)
      => /\ pc' = "member"
         /\ member' = plannedAssignments[planIndex + 1].memberId
         /\ calls' = Append(calls, calls'[Len(calls')])
         /\ calls'[Len(calls')].kind = "member"
         /\ calls'[Len(calls')].to = plannedAssignments[planIndex + 1].memberId ]_vars

(* the action names another configured member than the planned one *)
C6_Witness ==
  /\ pc = "member"
  /\ ~PlanExhausted
  /\ action.memberId \in MemberIds(members)
  /\ action.memberId # plannedAssignments[planIndex + 1].memberId
  /\ member = plannedAssignments[planIndex + 1].memberId
  /\ calls[Len(calls)].to = member

(* ---------------- C7 ---------------- *)
(* C7: an unparseable main-round output is retried in the same round while
   the retry counter is below retryMax (round and plan index unchanged,
   counter incremented, one leader_retry event, a new leader call); with no
   retry left the session ends at once with the raw text; the counter never
   exceeds retryMax. *)
C7_InvalidRetry ==
  /\ [](/\ invalidActionRetries <= retryMax
        /\ CountEvents("leader_retry") = invalidActionRetries)
  /\ [][ (RoundResponse /\ IsInvalid(leaderText'))
         => IF invalidActionRetries < retryMax
              THEN /\ round' = round
                   /\ planIndex' = planIndex
                   /\ invalidActionRetries' = invalidActionRetries + 1
                   /\ Len(events') = Len(events) + 2
                   /\ events'[Len(events')].type = "leader_retry"
                   /\ events'[Len(events')].attempt = invalidActionRetries'
                   /\ pc' = "leader"
                   /\ calls' = Append(calls, Call("leader", "leader", Undefined))
              ELSE /\ pc' = "returned"
                   /\ result' = leaderText'.id
                   /\ calls' = calls
                   /\ UNCHANGED <<round, planIndex, invalidActionRetries>> ]_vars

(* retries were made and spent, the session ended with the last raw text *)
C7_Witness ==
  /\ pc = "returned"
  /\ retryMax >= 1
  /\ invalidActionRetries = retryMax
  /\ IsInvalid(leaderText)
  /\ result = leaderText.id
  /\ LastEvent.type = "leader_invalid_json"

(* ---------------- C8 ---------------- *)
ScenarioB ==
  /\ pc = "returned"
  /\ Len(members) = 1
  /\ steps = << [kind |-> "leader_action", text |-> <<"finish_done">>] >>

(* C8 as stated: in scenario B the session makes one leader call and one
   final-verification call and no other backend call, and returns 'done'. *)
C8_ScenarioBAsStated ==
  ScenarioB => (Len(calls) = 2 /\ result = "done")

(* C8 amended: in scenario B the session makes one planning call, one
   main-round leader call and one final-verification call, all to the
   leader, no other backend call (no member is invoked), and returns
   'done'. *)
C8_ScenarioB ==
  ScenarioB =>
    /\ calls = << Call("plan", "leader", Undefined),
                  Call("leader", "leader", Undefined),
                  Call("finalVerify", "leader", Undefined) >>
    /\ result = "done"

C8_Witness == ScenarioB /\ result = "done" /\ Len(calls) = 3

(* ---------------- C9 ---------------- *)
(* C9: a Finish action opens exactly one final-verification call; whatever
   that verification says, the session then emits leader_verify followed by
   leader_finish, returns the Finish answer and runs no further round. *)
C9_FinishNotGated ==
  /\ [](/\ CountCalls("finalVerify") <= 1
        /\ (pc = "finalVerify" => CountCalls("finalVerify") = 1 /\ IsFinish(leaderText)))
  /\ [][ (RoundResponse /\ IsFinish(leaderText'))
         => /\ pc' = "finalVerify"
            /\ calls' = Append(calls, Call("finalVerify", "leader", Undefined)) ]_vars
  /\ [][ (pc = "finalVerify" /\ pc' # "thrown")
         => /\ pc' = "returned"
            /\ result' = ParsedAction(leaderText).answer
            /\ Len(events') = Len(events) + 2
            /\ events'[Len(events) + 1].type = "leader_verify"
            /\ events'[Len(events) + 2] = [type |-> "leader_finish",
                                           answer |-> ParsedAction(leaderText).answer]
            /\ calls' = calls
            /\ round' = round ]_vars

(* the final verification did not parse and the answer was returned all the same *)
C9_Witness ==
  /\ pc = "returned"
  /\ IsFinish(leaderText)
  /\ result = ParsedAction(leaderText).answer
  /\ Len(events) >= 2
  /\ events[Len(events) - 1].type = "leader_verify"
  /\ events[Len(events) - 1].raw = "v_broken"
  /\ ~events[Len(events) - 1].ok
  /\ LastEvent.type = "leader_finish"

(* ---------------- C10 ---------------- *)
(* C10: when the round loop ends without a Finish or an early termination,
   exactly one forced-finalization call is issued; the session returns its
   Finish answer when its text parses as a Finish action and its raw text
   otherwise, and emits a leader_finish event with the returned value. *)
C10_MaxRounds ==
  /\ [](/\ CountCalls("final") <= 1
        /\ (pc \in {"leader", "finalVerify", "member", "verify", "react"} => round <= maxRounds)
        /\ (pc = "final" => round = maxRounds + 1 /\ calls[Len(calls)].kind = "final")
        /\ (round > maxRounds /\ pc \notin {"start", "plan", "thrown"} => CountCalls("final") = 1))
  /\ [][ (pc = "final" /\ pc' # "thrown")
         => /\ pc' = "returned"
            /\ result' = (IF IsFinish(finalText') THEN finalText'.obj["answer"].v ELSE finalText'.id)
            /\ events' = Append(events, [type |-> "leader_finish", answer |-> result'])
            /\ calls' = calls ]_vars

(* the forced finalization answered with an ask_member: the raw text is returned *)
C10_Witness ==
  /\ pc = "returned"
  /\ maxRounds >= 1
  /\ CountCalls("final") = 1
  /\ IsAsk(finalText)
  /\ result = finalText.id
  /\ LastEvent = [type |-> "leader_finish", answer |-> finalText.id]

(* ---------------- C11 ---------------- *)
(* the strings a session can return: a raw leader text or a Finish answer *)
AnswerStrings ==
  { t.id : t \in DecisionTexts } \cup
  { ParsedAction(t).answer : t \in { d \in DecisionTexts : IsFinish(d) } }

(* C11: a session that returns, by a Finish, by an invalid action with no
   retry left, by an unknown member or by the forced finalization, returns a
   string, and that string is the one and only value onDelta received; until
   the session returns nothing is returned and onDelta receives nothing. *)
C11_FinalAnswer ==
  /\ [](pc = "returned" => (result \in AnswerStrings /\ deltas = <<result>>))
  /\ [](pc # "returned" => (result = Undefined /\ deltas = <<>>))
  /\ [][ (RoundResponse /\ IsInvalid(leaderText') /\ ~(invalidActionRetries < retryMax))
         => (pc' = "returned" /\ result' = leaderText'.id) ]_vars
  /\ [][ (pc' = "returned" /\ pc # "returned") => pc \in {"leader", "finalVerify", "final"} ]_vars

(* the four endings, each with its string handed to onDelta once *)
C11_Witness ==
  /\ pc = "returned"
  /\ retryMax >= 1
  /\ invalidActionRetries = retryMax
  /\ IsInvalid(leaderText)
  /\ LastEvent.type = "leader_invalid_json"
  /\ result = leaderText.id
  /\ deltas = <<leaderText.id>>

(* ---------------- C12 ---------------- *)
VerifyTextOf(id) == CHOOSE t \in VerifyTexts : t.id = id

(* this step consumed a verification response whose react names a member
   that is not configured *)
UnknownReactResponse ==
  /\ pc = "verify"
  /\ pc' # "thrown"
  /\ LET raw == events'[Len(events) + 1].raw
         v == normalizeVerify(extractJsonObject(VerifyTextOf(raw)))
     IN /\ v # Null
        /\ ~v.ok
        /\ HasReact(v)
        /\ v.react.memberId \notin MemberIds(members)

(* C12 as stated: a verification that names an unknown react member ends the
   session, which returns the leader's last raw text. *)
C12_UnknownReactAsStated ==
  [][ UnknownReactResponse => (pc' = "returned" /\ result' = leaderText.id) ]_vars

(* C12 amended: a verification that names an unknown react member ends only
   the verification sub-loop: no member is invoked, nothing is returned, the
   round and the plan index advance by one and the next leader call (the
   next round's, or the forced finalization after the last round) is opened. *)
C12_UnknownReact ==
  [][ UnknownReactResponse
      => ( /\ pc' = (IF round + 1 <= maxRounds THEN "leader" ELSE "final")
           /\ calls' = Append(calls, Call(pc', "leader", Undefined))
           /\ round' = round + 1
           /\ planIndex' = planIndex + 1
           /\ reactCount' = reactCount
           /\ steps' = steps
           /\ result' = Undefined
           /\ deltas' = <<>> ) ]_vars

(* an unknown react member was named while react budget was left, and the
   session went on to its next round *)
C12_Witness ==
  /\ pc = "leader"
  /\ round = 2
  /\ reactCount < reactMax
  /\ LastEvent.type = "leader_verify"
  /\ LastEvent.raw = "v_react_ghost"
  /\ result = Undefined

(* ---------------- C13 ---------------- *)
(* C13 as stated: every session that has returned emitted exactly one
   leader_finish event, and it is the last event. *)
C13_SummaryAsStated ==
  pc = "returned" => (CountEvents("leader_finish") = 1 /\ LastEvent.type = "leader_finish")

(* the session ended on a main-round response that was invalid with no retry
   left or that resolved to an unknown member *)
DegenerateEnding ==
  /\ finalText = NoText
  /\ \/ IsInvalid(leaderText)
     \/ IsAsk(leaderText)

(* C13 amended: a session that returns by a Finish or by the forced
   finalization emitted exactly one leader_finish event, as its last event
   and carrying the returned answer; a session that returns on an invalid
   action or an unknown member emitted no leader_finish at all, its last
   event is its only leader_invalid_json and carries the returned raw text.
   No leader_finish is emitted before the session returns. *)
C13_Summary ==
  /\ pc = "returned" /\ ~DegenerateEnding
       => /\ CountEvents("leader_finish") = 1
          /\ CountEvents("leader_invalid_json") = 0
          /\ LastEvent = [type |-> "leader_finish", answer |-> result]
  /\ pc = "returned" /\ DegenerateEnding
       => /\ CountEvents("leader_finish") = 0
          /\ CountEvents("leader_invalid_json") = 1
          /\ LastEvent = [type |-> "leader_invalid_json", text |-> result]
          /\ result = leaderText.id
  /\ pc # "returned" => CountEvents("leader_finish") = 0

(* a forced finalization ended the session with its leader_finish event *)
C13_Witness ==
  /\ pc = "returned"
  /\ finalText # NoText
  /\ CountEvents("leader_finish") = 1
  /\ LastEvent.type = "leader_finish"
  /\ round = maxRounds + 1
  /\ maxRounds >= 1

(* ---------------- C14 ---------------- *)
(* the planning call, maxRounds + retryMax leader calls, a member call and a
   verification per round, a member call and a verification per react, and
   the final verification or the forced finalization *)
CallBudget == 3 * maxRounds + retryMax + 2 * reactMax + 2

(* C14: when every backend exchange returns, every session eventually
   returns, whatever the model outputs and the three budgets are, and it
   never opens more than 3 * maxRounds + retryMax + 2 * reactMax + 2 backend
   exchanges. *)
C14_Termination ==
  /\ <>(pc = "returned")
  /\ [](Len(calls) <= CallBudget)

(* a session that used its whole budget of backend exchanges and returned *)
C14_Witness ==
  /\ pc = "returned"
  /\ maxRounds = MaxRoundsBound
  /\ retryMax >= 1
  /\ reactMax >= 1
  /\ Len(calls) = CallBudget

(* ---------------- C15 ---------------- *)
LeaderAwaits == {"plan", "leader", "finalVerify", "member", "verify", "react", "final"}
GoalAwaits == {"model", "tool"}

(* C15: within one invocation of runLeaderTeam or runGoalDrivenTalk the
   function is only ever suspended on the backend exchange or tool call it
   opened last; a step opens at most one of them, and only a step that starts
   the invocation or consumes the outcome of the previous one opens the next:
   no two are in flight together. *)
C15_StrictSequencing ==
  /\ [](pc \in LeaderAwaits => (Len(calls) >= 1 /\ calls[Len(calls)].kind = pc))
  /\ [](gpc \in GoalAwaits => (Len(goalCalls) >= 1 /\ goalCalls[Len(goalCalls)].kind = gpc))
  /\ [](pc \in {"idle", "start"} => calls = <<>>)
  /\ [](gpc \in {"idle", "start"} => goalCalls = <<>>)
  /\ [][ calls' # calls
         => /\ pc \in LeaderAwaits \cup {"start"}
            /\ Len(calls') = Len(calls) + 1
            /\ SubSeq(calls', 1, Len(calls)) = calls
            /\ pc' = calls'[Len(calls')].kind ]_vars
  /\ [][ goalCalls' # goalCalls
         => /\ gpc \in GoalAwaits \cup {"start"}
            /\ Len(goalCalls') = Len(goalCalls) + 1
            /\ SubSeq(goalCalls', 1, Len(goalCalls)) = goalCalls
            /\ gpc' = goalCalls'[Len(goalCalls')].kind ]_vars

(* a backend exchange, then a tool call, then the next backend exchange *)
C15_Witness ==
  /\ gpc = "model"
  /\ Len(goalCalls) = 3
  /\ goalCalls[1].kind = "model"
  /\ goalCalls[2].kind = "tool"
  /\ goalCalls[3].kind = "model"

(* ---------------- C16 ---------------- *)
CountGoalCalls(kind) == Cardinality({ i \in 1..Len(goalCalls) : goalCalls[i].kind = kind })

(* C16: a goal-driven session with maxTurns = N opens at most N backend
   exchanges (turn k holds the k-th); when no turn returns, the session has
   opened exactly N, appends the fixed fallback message and returns its
   text; a session that returns within a turn returns that turn's text or
   answer. *)
C16_TurnBound ==
  /\ CountGoalCalls("model") <= maxTurns
  /\ gpc \in GoalAwaits => (turn <= maxTurns /\ CountGoalCalls("model") = turn)
  /\ (gpc = "returned" /\ turn > maxTurns)
       => /\ CountGoalCalls("model") = maxTurns
          /\ goalResult = FallbackText
          /\ session[Len(session)] = makeMsg("assistant", FallbackText, AgentName)
          /\ goalEvents[Len(goalEvents)] =
               [type |-> "assistant", message |-> makeMsg("assistant", FallbackText, AgentName)]
  /\ (gpc = "returned" /\ turn <= maxTurns)
       => /\ goalResult # FallbackText
          /\ session[Len(session)] = makeMsg("assistant", goalResult, AgentName)

(* every turn was used and the fallback was returned *)
C16_Witness ==
  /\ gpc = "returned"
  /\ maxTurns = MaxTurnsBound
  /\ CountGoalCalls("model") = maxTurns
  /\ goalResult = FallbackText

(* ---------------- C17 ---------------- *)
(* the raw texts, as an unparseable response is appended *)
RawIds == { t.id : t \in GoalTexts }

(* an event of an accepted action: anything but an appended raw text *)
AcceptedEvent(ev) ==
  ~("message" \in DOMAIN ev /\ ev.type = "assistant" /\ ev.message.content \in RawIds)

(* this step took the response of the turn as a plan *)
PlanAccepted ==
  /\ gpc = "model"
  /\ gpc' # "thrown"
  /\ goalAction' # Null
  /\ goalAction'.type = "plan"
  /\ hasPlan'
  /\ Len(session') > Len(session)

(* C17 as stated: a plan is accepted only while no plan was accepted and no
   other action was accepted before it. *)
C17_PlanFirstAsStated ==
  [][ PlanAccepted
      => /\ ~hasPlan
         /\ \A i \in 1..Len(goalEvents) : ~AcceptedEvent(goalEvents[i]) ]_vars

(* ---------------- C18 ---------------- *)
(* this step found the response of the turn to be no action *)
InvalidResponse ==
  /\ gpc = "model"
  /\ gpc' # "thrown"
  /\ goalAction' = Null

(* C18: in goalDrivenTalk.ts a response that is no action, on any turn,
   appends the raw text once as an assistant message and returns it at once:
   no further backend exchange or tool call, no later turn, no fallback
   message. *)
C18_InvalidReturns ==
  [][ (variant = "src" /\ InvalidResponse)
      => /\ gpc' = "returned"
         /\ goalResult' \in RawIds
         /\ session' = Append(session, makeMsg("assistant", goalResult', AgentName))
         /\ goalEvents' = Append(goalEvents,
                                 [type |-> "assistant",
                                  message |-> makeMsg("assistant", goalResult', AgentName)])
         /\ goalCalls' = goalCalls
         /\ turn' = turn ]_vars

(* an unparseable text on the second turn, after a plan, was returned *)
C18_Witness ==
  /\ variant = "src"
  /\ gpc = "returned"
  /\ turn = 2
  /\ hasPlan
  /\ maxTurns = MaxTurnsBound
  /\ goalResult = "g_prose"
  /\ CountGoalCalls("model") = 2

(* ---------------- C19 ---------------- *)
ErrorMessages(tool) == { makeMsg("tool", "MCP error for " \o tool \o ": " \o err, "mcp") : err \in ToolErrors }

(* the tail of the session after this step was added by it *)
Added == SubSeq(session', Len(session) + 1, Len(session'))

(* the loop went on to its next turn: the next backend exchange, or the
   fallback once the turns are used up *)
NextTurn ==
  /\ turn' = turn + 1
  /\ IF turn + 1 <= maxTurns
       THEN gpc' = "model" /\ Len(goalCalls') = Len(goalCalls) + 1
       ELSE gpc' = "returned" /\ goalCalls' = goalCalls

(* this step is an mcp_call turn with an active server on which opening
   the connection failed: no tool call was made *)
ConnectFailed ==
  /\ gpc = "model"
  /\ gpc' \notin {"thrown", "tool"}
  /\ goalAction' # Null
  /\ goalAction'.type = "mcp_call"
  /\ activeMcpServer # Null

(* this step is the end of a tool call that threw *)
CallToolFailed ==
  /\ gpc = "tool"
  /\ Len(session') > Len(session)
  /\ session'[Len(session) + 1] \in ErrorMessages(goalAction.tool)

(* C19: when opening the tool connection or callTool throws in an mcp_call
   turn, exactly one error-text tool message is appended for it, the session
   does not reject, and the loop proceeds to its next turn; a tool call never
   ends in a rejected session. *)
C19_ToolFailureContained ==
  /\ [](gpc = "thrown" => goalCalls[Len(goalCalls)].kind = "model")
  /\ [][ gpc = "tool" => gpc' \in {"model", "returned"} ]_vars
  /\ [][ (ConnectFailed \/ CallToolFailed)
         => /\ NextTurn
            /\ Added[1] \in ErrorMessages(goalAction'.tool)
            /\ Len(SelectSeq(Added, LAMBDA m : m.role = "tool")) = 1
            /\ Len(Added) = (IF gpc' = "returned" THEN 2 ELSE 1)
            /\ goalResult' = (IF gpc' = "returned" THEN FallbackText ELSE Undefined) ]_vars

(* callTool threw on the first turn and the second turn was opened *)
C19_Witness ==
  /\ gpc = "model"
  /\ turn = 2
  /\ Len(goalCalls) = 3
  /\ goalCalls[2].kind = "tool"
  /\ session[Len(session)] \in ErrorMessages("t1")

(* ---------------- C20 ---------------- *)
(* C20: every tool call is dispatched to the active server, whether the
   mcp_call action carries no serverId, the active server's id or another
   id; without an active server no tool call is made. *)
C20_ActiveServerOnly ==
  /\ [](\A i \in 1..Len(goalCalls) :
          goalCalls[i].kind = "tool" => (activeMcpServer # Null /\ goalCalls[i].to = activeMcpServer.id))
  /\ [][ (gpc = "model" /\ gpc' = "tool")
         => /\ targetServer' = activeMcpServer
            /\ goalCalls' = Append(goalCalls, ToolCall(activeMcpServer, goalAction')) ]_vars

(* the action named srvA while srvB was active: the call went to srvB *)
C20_Witness ==
  /\ gpc = "tool"
  /\ activeMcpServer = SrvB
  /\ goalAction.serverId = "srvA"
  /\ goalCalls[Len(goalCalls)].to = "srvB"

(* ---------------- C29 ---------------- *)
(* this step consumed a verification response that leaves the verification
   sub-loop without a verdict of ok: it does not parse, or it fails without a
   react, or it asks for a react when the react budget is used up, or it asks
   for a react by a member that is not configured *)
LocalExitResponse ==
  /\ pc = "verify"
  /\ pc' # "thrown"
  /\ LET raw == events'[Len(events) + 1].raw
         v == normalizeVerify(extractJsonObject(VerifyTextOf(raw)))
     IN \/ v = Null
        \/ /\ v # Null
           /\ ~v.ok
           /\ \/ ~HasReact(v)
              \/ reactCount >= reactMax
              \/ v.react.memberId \notin MemberIds(members)

(* C29: an unparseable verification, a failed verification without a react,
   an exhausted react budget and an unknown react member each end only the
   verification sub-loop: no member is invoked (the one call opened is the
   leader's next one), nothing is returned, no step is recorded, the react
   count stays, and the round and the plan index advance by exactly one. *)
C29_LocalExits ==
  [][ LocalExitResponse
      => ( /\ pc' \in {"leader", "final"}
           /\ pc' = (IF round + 1 <= maxRounds THEN "leader" ELSE "final")
           /\ Len(calls') = Len(calls) + 1
           /\ calls'[Len(calls')].to = "leader"
           /\ calls'[Len(calls')].kind \notin {"member", "react"}
           /\ Len(events') = Len(events) + 1
           /\ round' = round + 1
           /\ planIndex' = planIndex + 1
           /\ reactCount' = reactCount
           /\ steps' = steps
           /\ plannedAssignments' = plannedAssignments
           /\ result' = Undefined ) ]_vars

(* a verification did not parse in the first round and the session went on
   to its second round *)
C29_Witness ==
  /\ pc = "leader"
  /\ round = 2
  /\ planIndex = 1
  /\ LastEvent.type = "leader_verify"
  /\ LastEvent.raw = "v_broken"
  /\ result = Undefined

(* ---------------- C30 ---------------- *)
(* the planning call has been answered and the plan computed *)
Planned == pc \notin {"idle", "start", "plan"}

DistinctIds(ms) == \A i, j \in 1..Len(ms) : ms[i] = ms[j] => i = j

PlanWellFormed ==
  /\ \A i \in 1..Len(plannedAssignments) :
        plannedAssignments[i].memberId \in MemberIds(members)
  /\ DistinctIds(members)
       => \A i, j \in 1..Len(plannedAssignments) :
            plannedAssignments[i].memberId = plannedAssignments[j].memberId => i = j

(* C30: once the plan is computed every assignment names a configured
   member and, the members' ids being distinct, no member is named twice;
   from then on the plan is never changed. *)
C30_PlanWellFormed ==
  /\ [](Planned => PlanWellFormed)
  /\ [][Planned => plannedAssignments' = plannedAssignments]_vars

(* a planning text that named an unknown member and one member twice was
   filtered down to a shorter plan, and the session has run a round on it *)
C30_Witness ==
  /\ Planned
  /\ round = 2
  /\ Len(events) > 0
  /\ events[1].type = "leader_plan"
  /\ events[1].raw = "plan_mixed"
  /\ Len(plannedAssignments) = 2
  /\ plannedAssignments = events[1].assignments

(* ---------------- C21 ---------------- *)
(* this step consumed the answer of the companion endpoint *)
AnswerConsumed == bpc = "post" /\ bpc' # "post" /\ httpRes # NetworkError

(* this step delivered a frame with the id of the waiting request *)
OwnFrameDelivered ==
  /\ bpc = "wait"
  /\ Len(pushed') = Len(pushed) + 1
  /\ "id" \in DOMAIN pushed'[Len(pushed')]
  /\ pushed'[Len(pushed')]["id"].v = OwnId

(* this step is the timer firing on the waiting request *)
TimerFired == bpc = "wait" /\ timer = "armed" /\ timer' = "fired"

ThrownWith(err) == bpc' = "thrown" /\ toolOut' = [kind |-> "thrown", value |-> err]

BridgeEnded == bpc \in {"returned", "thrown"}

(* C21 as stated: a status outside 2xx, a timeout and an answer that carries
   an error field each make the invocation throw, and every invocation
   makes exactly one request. *)
C21_BridgeErrorsAsStated ==
  /\ [](BridgeEnded => Len(posts) = 1)
  /\ [][ /\ (AnswerConsumed /\ ~httpRes.ok) => ThrownWith("HTTP 500")
         /\ (AnswerConsumed /\ httpRes.ok /\ "error" \in DOMAIN httpRes.body)
              => bpc' = "thrown"
         /\ (OwnFrameDelivered /\ "error" \in DOMAIN pushed'[Len(pushed')])
              => bpc' = "thrown"
         /\ TimerFired => ThrownWith("timeout") ]_vars

(* C21 amended: a status outside 2xx, a timeout and an answer (to the POST,
   or pushed) whose error field holds a value that counts as true each make
   the invocation throw that error; an error field of null beside a result
   does not.  An invocation never makes a second request: it makes exactly
   one, or none when the request address cannot be built, and then it
   throws. *)
C21_BridgeErrors ==
  /\ [](Len(posts) <= 1)
  /\ [](BridgeEnded => \/ Len(posts) = 1
                       \/ (PostUrl(sseUrl) = Undefined /\ posts = <<>> /\ bpc = "thrown"))
  /\ [][ /\ (AnswerConsumed /\ ~httpRes.ok) => ThrownWith("HTTP 500")
         /\ (AnswerConsumed /\ httpRes.ok /\ Truthy(httpRes.body, "error"))
              => ThrownWith(httpRes.body["error"].v)
         /\ (AnswerConsumed /\ httpRes.ok /\ "result" \in DOMAIN httpRes.body
                            /\ ~Truthy(httpRes.body, "error"))
              => bpc' = "returned"
         /\ (OwnFrameDelivered /\ Truthy(pushed'[Len(pushed')], "error"))
              => ThrownWith(pushed'[Len(pushed')]["error"].v)
         /\ TimerFired => ThrownWith("timeout")
         /\ posts' # posts => posts = <<>> ]_vars

(* the one request was deferred, nothing was pushed in time, the timer
   fired and the invocation threw the timeout error *)
C21_Witness ==
  /\ bpc = "thrown"
  /\ toolOut = [kind |-> "thrown", value |-> "timeout"]
  /\ timer = "fired"
  /\ Len(posts) = 1

(* ---------------- C22 ---------------- *)
(* the POST was answered 2xx without an immediate result or error: either a
   JSON body that carries neither, or no body at all *)
DeferredAnswer ==
  /\ AnswerConsumed
  /\ httpRes.ok
  /\ (httpRes.body = NoBody \/ ~IsImmediate(httpRes.body))

(* C22 as stated: after a POST answered without an immediate result or
   error (an answer with no body included) the request waits for a pushed
   frame with its id and resolves with that frame, and fails with the
   timeout error when none has come within 15000 ms. *)
C22_DeferredAsStated ==
  /\ [](bpc = "wait" => elapsed <= TimeoutMs)
  /\ [][ /\ DeferredAnswer => (bpc' = "wait" /\ OwnId \in pending' /\ timer' = "armed")
         /\ OwnFrameDelivered
              => (Len(resolved') = 1 /\ resolved'[1] = pushed'[Len(pushed')])
         /\ TimerFired => (elapsed >= TimeoutMs /\ ThrownWith("timeout")) ]_vars

(* ---------------- C23 ---------------- *)
(* the texts of the delta events of a sequence, in order *)
RECURSIVE DeltaTexts(_)
DeltaTexts(evs) ==
  IF evs = <<>> THEN <<>>
  ELSE (IF Head(evs).type = "delta" THEN << Head(evs).text >> ELSE <<>>) \o DeltaTexts(Tail(evs))

RECURSIVE Concat(_)
Concat(ts) == IF ts = <<>> THEN "" ELSE Head(ts) \o Concat(Tail(ts))

OnlyDeltas(evs) == \A i \in 1..Len(evs) : evs[i].type = "delta"

(* C23: the returned text is the text of the done event when the sequence
   ends with one, whatever came before, and the concatenation of the deltas
   when the sequence has only deltas; onDelta has received exactly the delta
   events consumed so far, each once and in order, and no done event. *)
C23_OneToOneResult ==
  /\ spc \in {"loop", "returned", "thrown"}
       => forwarded = DeltaTexts(SubSeq(stream, 1, spos - 1))
  /\ spc = "returned"
       => /\ spos = Len(stream) + 1
          /\ (stream # <<>> /\ stream[Len(stream)].type = "done")
               => sResult = stream[Len(stream)].text
          /\ OnlyDeltas(stream) => sResult = Concat(DeltaTexts(stream))

(* two deltas and then a done event with another text: the done text is
   returned and both deltas were forwarded *)
C23_Witness ==
  /\ spc = "returned"
  /\ stream = << Delta("a"), Delta("b"), Done("z") >>
  /\ sResult = "z"
  /\ forwarded = << "a", "b" >>

(* ---------------- C24 ---------------- *)
Retryable(r) == r.rejected \/ r.status = 429

(* C24: one chat call makes at most retryMax + 1 requests; every request
   but the last one failed with a rejected fetch or a 429 while attempts
   remained, and each of those retries was logged once; a failure that is
   not retried (the attempts are used up, or the status is another one) ends
   the stream with a single done event that carries the error text, and the
   generator never throws. *)
C24_BoundedRetry ==
  /\ [](/\ Len(fetched) <= AdapterRetryMax(retryArg) + 1
        /\ Len(logs) <= AdapterRetryMax(retryArg)
        /\ Len(logs) \in {Len(fetched) - 1, Len(fetched)}
        /\ apc # "sleep" /\ fetched # <<>> => Len(logs) = Len(fetched) - 1
        /\ \A i \in 1..Len(logs) :
             /\ Retryable(fetched[i])
             /\ logs[i].attempt = i
             /\ i <= AdapterRetryMax(retryArg)
        /\ apc # "thrown"
        /\ Len(yielded) <= 1
        /\ apc = "ended" <=> Len(yielded) = 1)
  /\ [][ (apc = "fetch" /\ ~Usable(response)
                        /\ (attempt >= AdapterRetryMax(retryArg) \/ ~Retryable(response)))
         => /\ apc' = "ended"
            /\ yielded' = << FailureEvent(response) >>
            /\ fetched' = fetched
            /\ logs' = logs ]_vars

(* three requests were made with retry.max = 2: a rejected fetch and a 429
   were retried and logged, the third failure ended the stream *)
C24_Witness ==
  /\ apc = "ended"
  /\ retryArg = [max |-> 2]
  /\ fetched = << FetchRejected, Response(429, TRUE), Response(429, TRUE) >>
  /\ Len(logs) = 2
  /\ yielded = << Done("Request failed: HTTP 429") >>

(* ---------------- C25 ---------------- *)
(* this step is a one-to-one exchange returning a text that is no tool call *)
PlainExchangeReturned ==
  /\ opc = "chat"
  /\ opc' = "ready"
  /\ sendEnds'[Len(sendEnds')].failed = "none"
  /\ mcpAction' = Null

(* this step is a send in one-to-one mode *)
SendMade == opc = "ready" /\ opc' = "chat"

(* C25 as stated: when a one-to-one send is over, the assistant message kept
   in the conversation is the text the exchange returned, whatever events
   the adapter yielded, and the next send passes the conversation so far,
   followed by the new user message, as its history. *)
C25_MemoryAsStated ==
  [][ /\ (PlainExchangeReturned => conversation'[assistantId].content = appFull')
      /\ (SendMade => requests'[Len(requests')].history
                         = Append(conversation, appMsg(Len(conversation) + 1, "user", AppInput, "user")))
    ]_vars

(* ---------------- C26 ---------------- *)
(* this step ended the first exchange of a send with a text that parses as
   a tool call, an active server being there *)
FirstReplyIsCall ==
  /\ opc = "chat"
  /\ opc' # "chat"
  /\ appMcpServer # Null
  /\ mcpAction' # Null
  /\ ~(opc' = "ready" /\ sendEnds'[Len(sendEnds')].failed = "backend")

(* the invocation the action asks for: its tool, and its input or the empty
   object *)
ExpectedToolCall(act) ==
  [kind |-> "tool", to |-> appMcpServer.id, tool |-> act.tool,
   input |-> IF act.input = Null THEN O(<<>>) ELSE act.input]

CallMade ==
  /\ opc' = "tool"
  /\ toolCalls' = Append(toolCalls, ExpectedToolCall(mcpAction'))
  /\ requests' = requests

(* the follow-up exchange is opened on the conversation of the send, the
   first reply and the tool message, which is also added to the conversation *)
FollowupOpened ==
  /\ opc' = "followup"
  /\ Len(requests') = Len(requests) + 1
  /\ LET r == requests'[Len(requests')]
         toolMsg == conversation'[Len(conversation) + 1]
     IN /\ r.input = FollowupInput
        /\ toolMsg.role = "tool"
        /\ r.history = baseHistory \o << appMsg(0, "assistant", appFull, AgentName), toolMsg >>

(* the tool error is added to the conversation and the send is over *)
ToolErrorShown ==
  /\ opc' = "ready"
  /\ requests' = requests
  /\ Len(conversation') = Len(conversation) + 1
  /\ \E err \in ToolErrors :
       conversation'[Len(conversation')]
         = appMsg(Len(conversation) + 1, "tool", AppMcpError(mcpAction'.tool, err), "mcp")

(* what holds of every step, as stated or amended *)
OneCallOneFollowup ==
  /\ (toolCalls' # toolCalls => opc = "chat")
  /\ (opc = "tool") => /\ toolCalls' = toolCalls
                      /\ (FollowupOpened \/ ToolErrorShown)
  /\ opc = "followup" => /\ toolCalls' = toolCalls
                          /\ requests' = requests
                          /\ opc' \in {"followup", "ready"}

(* C26 as stated: a first reply that parses as a tool call, with an active
   server, causes exactly one callTool invocation with the action's tool and
   input (the empty object when absent); a returned tool is followed by
   exactly one follow-up exchange whose history holds the tool message; the
   follow-up reply causes no tool call; a callTool that throws adds an error
   message and no follow-up. *)
C26_OneToolCallAsStated ==
  [][ /\ (FirstReplyIsCall => CallMade)
      /\ OneCallOneFollowup ]_vars

(* C26 amended: the same, except that callTool is not invoked at all when
   opening the connection to the server throws: then the error message is
   added and the send is over, as when callTool throws. *)
C26_OneToolCall ==
  [][ /\ (FirstReplyIsCall => (CallMade \/ (toolCalls' = toolCalls /\ ToolErrorShown)))
      /\ OneCallOneFollowup ]_vars

(* a send whose first reply asked for the tool echo without an input: one
   invocation with the empty object, one follow-up, whose reply was itself a
   tool call text and was shown, not run *)
C26_Witness ==
  /\ opc = "ready"
  /\ sends = 1
  /\ toolCalls = << [kind |-> "tool", to |-> "srvA", tool |-> "echo", input |-> O(<<>>)] >>
  /\ Len(requests) = 2
  /\ conversation[followupId].content = "call_time"

(* ---------------- C27 ---------------- *)
(* the documents the active agent may use *)
AllowedDocs ==
  { d \in { docs[i] : i \in 1..Len(docs) } : ~allowedDocIds.has \/ d.id \in allowedDocIds.ids }

BlocksOf(sys) == { sys.blocks[i] : i \in 1..Len(sys.blocks) }

(* C27: the system text of every backend exchange holds the title and the
   content of each document the active agent may use (every document when it
   has no allow-list), once, and of no other; without such a document no
   system text is passed. *)
C27_DocContext ==
  \A i \in 1..Len(requests) :
    LET sys == requests[i].system
    IN /\ sys.defined <=> AllowedDocs # {}
       /\ BlocksOf(sys) = { [title |-> d.title, content |-> d.content] : d \in AllowedDocs }
       /\ Len(sys.blocks) = Cardinality(AllowedDocs)

(* with an allow-list naming the second document and one that is not in the
   vault, the send and its follow-up both carried the second document only *)
C27_Witness ==
  /\ allowedDocIds = AllowList({"d2", "ghost"})
  /\ Len(requests) = 2
  /\ requests[2].input = FollowupInput
  /\ requests[1].system.blocks = << [title |-> "T2", content |-> "c2"] >>
  /\ requests[2].system = requests[1].system

(* ---------------- C28 ---------------- *)
(* this step ended a send on the failure of a collaborator *)
CollaboratorThrew(kind) ==
  /\ Len(sendEnds') = Len(sendEnds) + 1
  /\ sendEnds'[Len(sendEnds')].failed = kind

IsErrorMessage(m) == m.role = "assistant" /\ m.name = "system" /\ m.content = "[ERROR]\nfailed"

CountErrors(h) == Cardinality({ i \in 1..Len(h) : IsErrorMessage(h[i]) })

NeverEscapes == \A i \in 1..Len(sendEnds) : sendEnds[i].outcome = "returned"

(* C28 as stated: whichever collaborator throws, the backend or the tool
   transport, the exception stays inside onSend, one '[ERROR]' message is
   added and the messages added before stay as they were. *)
C28_ErrorBoundaryAsStated ==
  /\ []NeverEscapes
  /\ [][ (CollaboratorThrew("backend") \/ CollaboratorThrew("transport"))
         => /\ Len(conversation') = Len(conversation) + 1
            /\ IsErrorMessage(conversation'[Len(conversation')])
            /\ SubSeq(conversation', 1, Len(conversation)) = conversation ]_vars

(* C28 amended: no exception leaves onSend.  When the backend throws, in
   either mode, one '[ERROR]' message is added and the messages before it
   stay as they were.  When the tool transport throws, the message added is
   the tool's 'MCP error for ...' message and no '[ERROR]' message; the
   messages before it stay as they were but for the assistant message, which
   reads 'Calling MCP tool: ...' from before the call. *)
C28_ErrorBoundary ==
  /\ []NeverEscapes
  /\ [][ /\ CollaboratorThrew("backend")
              => /\ Len(conversation') = Len(conversation) + 1
                 /\ IsErrorMessage(conversation'[Len(conversation')])
                 /\ SubSeq(conversation', 1, Len(conversation)) = conversation
         /\ CollaboratorThrew("transport")
              => /\ ToolErrorShown
                 /\ CountErrors(conversation') = CountErrors(conversation)
                 /\ SubSeq(conversation', 1, Len(conversation))
                      = SetContent(conversation, assistantId,
                                   "Calling MCP tool: " \o mcpAction'.tool) ]_vars

(* the follow-up exchange of a send threw after a delta: the error message
   was added behind the tool message and the partly filled follow-up message *)
C28_Witness ==
  /\ opc = "ready"
  /\ sends = 1
  /\ sendEnds[1] = [outcome |-> "returned", failed |-> "backend"]
  /\ Len(requests) = 2
  /\ Len(conversation) = 5
  /\ conversation[followupId].content = "answer"
  /\ IsErrorMessage(conversation[5])

(* ---------------- C31 ---------------- *)
IsPrefix(p, q) == Len(p) <= Len(q) /\ SubSeq(q, 1, Len(p)) = p

(* lines 120-125: the session log of a leader prompt, one numbered entry per
   step, in the order of the steps *)
SessionLog(st) == [i \in 1..Len(st) |-> [index |-> i, entry |-> st[i]]]

(* C31: steps only grows at its end, so the session log of a leader prompt
   has the log of every earlier prompt as a prefix, and every main-round
   leader response, valid or not, adds exactly one leader_action step, which
   holds the text of the response. *)
C31_TranscriptMonotone ==
  [][ /\ IsPrefix(steps, steps')
      /\ IsPrefix(SessionLog(steps), SessionLog(steps'))
      /\ (RoundResponse => steps' = Append(steps, [kind |-> "leader_action", text |-> <<leaderText'.id>>]))
    ]_vars

(* the third leader prompt of a session: its log holds the invalid text of
   the first response, the accepted action of the second and the member's
   reply *)
C31_Witness ==
  /\ pc = "leader"
  /\ CountCalls("leader") = 3
  /\ Len(steps) = 3
  /\ steps[1] = [kind |-> "leader_action", text |-> <<"prose">>]
  /\ steps[2].kind = "leader_action"
  /\ steps[3].kind = "member_reply"

(* ---------------- C32 ---------------- *)
(* this step took the response of a turn *)
TurnResponse == gpc = "model" /\ gpc' # "thrown"

(* this step took the response of a turn as an action of type t *)
TurnAction(t) == TurnResponse /\ goalAction' # Null /\ goalAction'.type = t

(* the tool calls this step opened *)
ToolCallsOpened ==
  { i \in (Len(goalCalls) + 1)..Len(goalCalls') : goalCalls'[i].kind = "tool" }

(* the step answered the action with the one tool message m, made no tool
   call and went on to the next turn *)
SyntheticTurn(m) ==
  /\ NextTurn
  /\ ToolCallsOpened = {}
  /\ Len(Added) = (IF gpc' = "returned" THEN 2 ELSE 1)
  /\ Added[1] = m
  /\ Len(SelectSeq(Added, LAMBDA x : x.role = "tool")) = 1

SkippedMsg == makeMsg("tool", "MCP call skipped: no active MCP server selected.", "mcp")

(* what holds of doc_lookup and of mcp_call without a server, and that no
   step but the response of a turn opens a tool call *)
NoToolTurns ==
  /\ (~TurnResponse => ToolCallsOpened = {})
  /\ (TurnAction("doc_lookup") => SyntheticTurn(makeMsg("tool", docText, "doc")))
  /\ ((TurnAction("mcp_call") /\ activeMcpServer = Null) => SyntheticTurn(SkippedMsg))

(* C32 as stated: a turn makes a tool call if and only if its action is
   mcp_call and an active server is configured; doc_lookup, with or without a
   document, and mcp_call without an active server each add one synthetic
   tool message, open no tool call and let the loop go on. *)
C32_ToolAvailabilityAsStated ==
  [][ /\ (TurnResponse => (ToolCallsOpened # {} <=> (TurnAction("mcp_call") /\ activeMcpServer # Null)))
      /\ NoToolTurns ]_vars

(* C32 amended: a turn makes a tool call only if its action is mcp_call and
   an active server is configured, and then it makes exactly one, unless
   opening the connection to the server throws: then no tool call is made,
   the error message is added and the loop goes on.  The rest as stated. *)
C32_ToolAvailability ==
  [][ /\ (TurnResponse /\ ToolCallsOpened # {}) => (TurnAction("mcp_call") /\ activeMcpServer # Null)
      /\ (TurnAction("mcp_call") /\ activeMcpServer # Null)
           => \/ /\ gpc' = "tool"
                 /\ goalCalls' = Append(goalCalls, ToolCall(activeMcpServer, goalAction'))
              \/ /\ ToolCallsOpened = {}
                 /\ NextTurn
                 /\ Added[1] \in ErrorMessages(goalAction'.tool)
      /\ NoToolTurns ]_vars

(* with a document and an active server: the first turn looked the document
   up, the second could not open the connection, the third made the one
   tool call of the session *)
C32_Witness ==
  /\ gpc = "tool"
  /\ turn = 3
  /\ selectedDoc
  /\ activeMcpServer # Null
  /\ Len(session) = 2
  /\ session[1] = makeMsg("tool", "[DOC:title]\ncontent", "doc")
  /\ session[2] \in ErrorMessages("t1")
  /\ CountGoalCalls("tool") = 1
  /\ CountGoalCalls("model") = 3

(* ---------------- C33 ---------------- *)
FallbackEvent == [type |-> "assistant", message |-> makeMsg("assistant", FallbackText, AgentName)]

(* the session is over and every response of it was unparseable: its events
   are raw texts, followed by the fallback *)
OnlyInvalidResponses ==
  /\ gpc = "returned"
  /\ \A i \in 1..Len(goalEvents) :
       \/ ~AcceptedEvent(goalEvents[i])
       \/ (i = Len(goalEvents) /\ goalEvents[i] = FallbackEvent)

(* C33: in the continuing variant a response that is no action adds the raw
   text once as an assistant message, makes no tool call and uses up its
   turn: the loop goes on to the next turn, or to the fallback after the last
   one.  A session of unparseable responses only has made exactly maxTurns
   backend exchanges and returns the fallback message. *)
C33_InvalidContinues ==
  /\ [][ (variant = "loop" /\ InvalidResponse)
         => /\ NextTurn
            /\ ToolCallsOpened = {}
            /\ Len(Added) = (IF gpc' = "returned" THEN 2 ELSE 1)
            /\ Added[1].content \in RawIds
            /\ Added[1] = makeMsg("assistant", Added[1].content, AgentName)
            /\ Len(goalEvents') = Len(goalEvents) + Len(Added)
            /\ goalEvents'[Len(goalEvents) + 1] = [type |-> "assistant", message |-> Added[1]] ]_vars
  /\ []((variant = "loop" /\ OnlyInvalidResponses)
         => /\ CountGoalCalls("model") = maxTurns
            /\ CountGoalCalls("tool") = 0
            /\ Len(session) = maxTurns + 1
            /\ session[Len(session)] = makeMsg("assistant", FallbackText, AgentName)
            /\ goalResult = FallbackText)

(* three turns, three unparseable responses, then the fallback *)
C33_Witness ==
  /\ variant = "loop"
  /\ maxTurns = MaxTurnsBound
  /\ OnlyInvalidResponses
  /\ CountGoalCalls("model") = MaxTurnsBound
  /\ \A i \in 1..MaxTurnsBound : session[i] = makeMsg("assistant", "g_prose", AgentName)
  /\ goalResult = FallbackText

(***************************************************************************)
(* C36: the retry budget belongs to the session.  invalidActionRetries is  *)
(* never lowered, in particular not when the round advances; the           *)
(* leader_retry events of a session are at most retryMax, one per retry    *)
(* counted, and the i-th of them carries attempt = i and max = retryMax;   *)
(* a round response that is invalid after k retries is retried exactly     *)
(* when k < retryMax (so a round entered after k retries is retried at     *)
(* most retryMax - k times), and otherwise the session returns the raw     *)
(* text.                                                                   *)
(***************************************************************************)
RetryEvents == SelectSeq(events, LAMBDA ev : ev.type = "leader_retry")

RetriesNumbered ==
  /\ Len(RetryEvents) = invalidActionRetries
  /\ Len(RetryEvents) <= retryMax
  /\ \A i \in 1..Len(RetryEvents) :
       RetryEvents[i].attempt = i /\ RetryEvents[i].max = retryMax

RetriedInRound ==
  /\ pc' = "leader"
  /\ round' = round
  /\ invalidActionRetries' = invalidActionRetries + 1
  /\ Len(RetryEvents') = Len(RetryEvents) + 1

EndedWithRawText ==
  /\ pc' = "returned"
  /\ result' = leaderText'.id
  /\ invalidActionRetries' = invalidActionRetries
  /\ RetryEvents' = RetryEvents

C36_SessionRetryBudget ==
  [][ /\ RetriesNumbered'
      /\ invalidActionRetries' >= invalidActionRetries
      /\ (round' # round => invalidActionRetries' = invalidActionRetries)
      /\ (RoundResponse /\ IsInvalid(leaderText') =>
            IF invalidActionRetries < retryMax THEN RetriedInRound ELSE EndedWithRawText)
      /\ (~(RoundResponse /\ IsInvalid(leaderText')) => RetryEvents' = RetryEvents) ]_vars

(* the second round was entered after the one retry of the budget was spent
   in the first, and its invalid response ended the session with the raw text *)
C36_Witness ==
  /\ pc = "returned"
  /\ round = 2
  /\ retryMax >= 1
  /\ invalidActionRetries = retryMax
  /\ Len(RetryEvents) = retryMax
  /\ LastEvent.type = "leader_invalid_json"
  /\ IsInvalid(leaderText)
  /\ result = leaderText.id

(***************************************************************************)
(* C37: transcript fidelity.  The i-th member_reply step of RunState.steps *)
(* records the member of the i-th member exchange (a main-round call or a  *)
(* react call) and, as its prompt, the message that was sent in that       *)
(* exchange, which is also the prompt of the i-th member_reply event.      *)
(***************************************************************************)
MemberReplySteps == SelectSeq(steps, LAMBDA st : st.kind = "member_reply")
MemberExchanges == SelectSeq(calls, LAMBDA c : c.kind \in {"member", "react"})
MemberReplyEvents == SelectSeq(events, LAMBDA ev : ev.type = "member_reply")

RecordedMember(i) ==
  /\ MemberReplySteps[i].memberId = MemberExchanges[i].to
  /\ MemberReplySteps[i].memberId = MemberReplyEvents[i].memberId

RecordedPrompt(i) ==
  /\ MemberReplySteps[i].prompt = MemberExchanges[i].input
  /\ MemberReplySteps[i].prompt = MemberReplyEvents[i].prompt

C37_TranscriptFidelityAsStated ==
  /\ Len(MemberReplySteps) = Len(MemberReplyEvents)
  /\ Len(MemberReplySteps) <= Len(MemberExchanges)
  /\ \A i \in 1..Len(MemberReplySteps) : RecordedMember(i) /\ RecordedPrompt(i)

(***************************************************************************)
(* C38: event ordering of the leader protocol.  The first event of a       *)
(* session is leader_plan and there is no second one (a session emits it   *)
(* as soon as its planning call has returned, and nothing before);         *)
(* every member_reply event comes right after a leader_ask_member or a     *)
(* leader_react event that names the same member; between a member_reply   *)
(* event and any later leader_decision_raw event there is a leader_verify  *)
(* event.                                                                  *)
(***************************************************************************)
PlanEventFirstAndOnce ==
  /\ CountEvents("leader_plan") = (IF events = << >> THEN 0 ELSE 1)
  /\ (events # << >> => events[1].type = "leader_plan")
  /\ (pc \in {"start", "plan"} => events = << >>)
  /\ (pc \in {"leader", "finalVerify", "member", "verify", "react", "final", "returned"} =>
        events # << >>)

ReplyFollowsItsRequest ==
  \A i \in 1..Len(events) :
    events[i].type = "member_reply" =>
      /\ i > 1
      /\ events[i - 1].type \in {"leader_ask_member", "leader_react"}
      /\ events[i - 1].memberId = events[i].memberId

VerifyBeforeNextDecision ==
  \A i \in 1..Len(events) : \A j \in (i + 1)..Len(events) :
    (events[i].type = "member_reply" /\ events[j].type = "leader_decision_raw") =>
      \E k \in (i + 1)..(j - 1) : events[k].type = "leader_verify"

C38_EventOrdering ==
  /\ PlanEventFirstAndOnce
  /\ ReplyFollowsItsRequest
  /\ VerifyBeforeNextDecision

(* a round with a main reply and a react reply, then the next round's response *)
C38_Witness ==
  /\ CountEvents("member_reply") = 2
  /\ CountEvents("leader_react") = 1
  /\ CountEvents("leader_ask_member") = 1
  /\ CountEvents("leader_decision_raw") = 2
  /\ LastEvent.type = "leader_finish"
  /\ pc = "returned"

(***************************************************************************)
(* C39: single resolution.  request() resolves at most once; a step that   *)
(* resolves it finds nothing resolved before and leaves its id out of      *)
(* pending; a frame that arrives when its id is not pending (after the     *)
(* timeout, for another request, or not JSON) and a timer that fires when  *)
(* the id is not pending (after the matching frame) change nothing of the  *)
(* request; once it has resolved, its id is not pending.                   *)
(***************************************************************************)
FrameArrived == Len(pushed') = Len(pushed) + 1
ArrivedFrame == pushed'[Len(pushed')]
FrameMatchesPending == "id" \in DOMAIN ArrivedFrame /\ ArrivedFrame["id"].v \in pending
TimerRan == timer = "armed" /\ timer' = "fired"
RequestUntouched == UNCHANGED <<pending, resolved, toolOut, bpc>>

C39_SingleResolution ==
  /\ [](Len(resolved) <= 1)
  /\ [](resolved # << >> => OwnId \notin pending)
  /\ [][ /\ (resolved' # resolved => resolved = << >> /\ OwnId \notin pending')
         /\ ((FrameArrived /\ ~FrameMatchesPending) => RequestUntouched)
         /\ ((FrameArrived /\ FrameMatchesPending) =>
               resolved' = << ArrivedFrame >> /\ pending' = pending \ {OwnId})
         /\ ((TimerRan /\ OwnId \notin pending) => RequestUntouched)
         /\ ((TimerRan /\ OwnId \in pending) =>
               resolved' = << [id |-> S(OwnId), error |-> S("timeout")] >> /\ OwnId \notin pending') ]_vars

(* the matching frame resolved the waiting request, the timer fired
   afterwards and the request kept its one resolution *)
C39_Witness ==
  /\ timer = "fired"
  /\ resolved = << OwnResultFrame >>
  /\ bpc = "returned"
  /\ pending = {}

(***************************************************************************)
(* C40 as stated: no pushed answer is lost.  A frame that carries the id   *)
(* of the request that was posted resolves that request when it arrives    *)
(* while the request waits, and also when it arrived while the POST had    *)
(* not returned yet: a request never waits for a frame that has already    *)
(* arrived, and a timer that fires after the frame has arrived does not    *)
(* end the request with the timeout error.                                 *)
(***************************************************************************)
OwnFrameArrived ==
  /\ FrameArrived
  /\ "id" \in DOMAIN ArrivedFrame
  /\ ArrivedFrame["id"].v = OwnId

OwnFramePushed == \E i \in 1..Len(pushed) : pushed[i] \in {OwnResultFrame, OwnErrorFrame}

TimedOut == resolved = << [id |-> S(OwnId), error |-> S("timeout")] >>

C40_NoLostPushAsStated ==
  /\ [](~(bpc = "wait" /\ OwnFramePushed))
  /\ [][ /\ ((OwnFrameArrived /\ bpc = "wait") => resolved' = << ArrivedFrame >>)
         /\ ((TimerRan /\ OwnFramePushed) => ~TimedOut') ]_vars

(***************************************************************************)
(* C34 as stated: in every protocol extractJsonObject returns the strict   *)
(* parse of the span when it parses, else the parse of the sanitized span  *)
(* when that parses, else null; a span that is JSON but for smart quotes   *)
(* or a trailing comma yields the object of its strict equivalent; a       *)
(* second call on the same text returns what the first returned.           *)
(***************************************************************************)
TwoPass(text) ==
  IF ~text.hasSpan THEN Null
  ELSE IF JSONparse(text) # Null THEN JSONparse(text)
  ELSE JSONparse(sanitizeJsonText(text))

(* the span with straight quotes in place of the smart ones and without the
   trailing comma, its string values as they were *)
StrictEquivalent(text) == [text EXCEPT !.smart = FALSE, !.comma = FALSE]

NearJson(text) == text.hasSpan /\ (text.smart \/ text.comma) /\ ~text.broken

C34_TwoPassAsStated ==
  \A i \in 1..Len(extracted) :
    /\ extracted[i] = TwoPass(modelText)
    /\ (NearJson(modelText) => extracted[i] = JSONparse(StrictEquivalent(modelText)))
    /\ extracted[i] = extracted[1]

(***************************************************************************)
(* C35 as stated: normalizeAction of every protocol takes the              *)
(* discriminator from type, or from action when type is no string, reads   *)
(* it without regard to case and surrounding blanks, returns the action of *)
(* that variant when the variant's required fields have their types, and   *)
(* null on every other input.                                              *)
(***************************************************************************)
WrittenDiscriminator(obj) ==
  IF TypeOf(obj, "type") = "string" THEN obj["type"].v
  ELSE IF TypeOf(obj, "action") = "string" THEN obj["action"].v
  ELSE ""

Discriminators ==
  { "finish", "ask_member", "plan", "think", "doc_lookup", "mcp_call", "final",
    "execute", "review", "wait" }

(* the discriminator a spelling stands for once case and blanks are ignored *)
MeantBy(written) ==
  IF \E d \in Discriminators : written \in Spellings(d)
    THEN CHOOSE d \in Discriminators : written \in Spellings(d)
    ELSE written

Variants(p) ==
  CASE p = "leader" -> { "finish", "ask_member" }
    [] p = "src" -> { "plan", "think", "doc_lookup", "mcp_call", "final" }
    [] OTHER -> { "plan", "think", "doc_lookup", "mcp_call", "final", "execute", "review" }

RequiredFieldsTyped(d, obj) ==
  CASE d \in {"finish", "final"} -> TypeOf(obj, "answer") = "string"
    [] d = "ask_member" -> TypeOf(obj, "memberId") = "string" /\ TypeOf(obj, "message") = "string"
    [] d = "think" -> TypeOf(obj, "thought") = "string"
    [] d = "mcp_call" -> TypeOf(obj, "tool") = "string"
    [] d \in {"execute", "review"} -> TypeOf(obj, "task") = "string"
    [] d = "plan" -> /\ TypeOf(obj, "items") = "array"
                     /\ \E i \in 1..Len(obj["items"].v) :
                          /\ obj["items"].v[i].t = "object"
                          /\ TypeOf(obj["items"].v[i].v, "goal") = "string"
                          /\ TypeOf(obj["items"].v[i].v, "agent") = "string"
    [] OTHER -> TRUE

C35_NormalizationAsStated ==
  ppc \in {"normalized", "done"} =>
    LET obj == extracted[1]
        d == MeantBy(WrittenDiscriminator(obj))
    IN IF obj # Null /\ d \in Variants(parser) /\ RequiredFieldsTyped(d, obj)
         THEN normalized # Null /\ normalized.type = d
         ELSE normalized = Null

====
